---- MODULE Spec2Model ----
(***************************************************************************)
(* A model of the Agent-Ready score calculator (calculateAgentReadiness-   *)
(* Score and the six dimension analyzers).                                 *)
(*                                                                         *)
(* Numbers.  The sub-factors are integers (Math.round of a percentage);    *)
(* the model computes them with exact integers.  The weighted sums that    *)
(* make a score of them (a * 0.35 + b * 0.25 + ...) are IEEE doubles in    *)
(* the source, and a sum whose rational value is k + 1/2 may evaluate just *)
(* below it; the model evaluates them as doubles (DoublePlus, DoubleTimes) *)
(* with the literals 0.35, 0.20 ... written in hundredths (35, 20 ...).    *)
(* structuralIntegrity, the only non-integer sub-factor (it uses           *)
(* Math.log10), is reported in ten-thousandths.                            *)
(*                                                                         *)
(* Strings.  A string the code only measures or searches is modelled by    *)
(* what the code reads from it: its length and, for a string handed to a   *)
(* RegExp, the index at which the first match of the pattern ends (0: no   *)
(* match).  Strings the code compares are kept as strings, and             *)
(* toLowerCase / includes / startsWith / parseInt are tables over them.    *)
(***************************************************************************)
EXTENDS Integers, Sequences, FiniteSets, TLC

\* ------------------------------------------------------------------ bounds
MaxOperations == 2
MaxResults == 2
\* Entries are appended only while the document has at most this many operations.
MaxOperationsWithResults == 1

\* The entries of each kind in the long issue lists.
MaxErrors == 9
MaxWarnings == 3
MaxRefIssues == 7

\* The calls of calculateApiScore a caller makes with one results array.
MaxRescores == 3

\* The validations a user runs on the page.
MaxValidations == 3

\* The calls of loadUnicornStudio in one page visit.
MaxLoads == 5

\* -------------------------------------------------------------- constants
\* WEIGHTS, in percent (0.25 is 25).
WEIGHTS_Retuned ==
  [foundationalCompliance |-> 30, semanticRichness |-> 20, agentUsability |-> 20,
   aiDiscoverability |-> 15, security |-> 10, errorRecoverability |-> 10]
WEIGHTS ==
  [foundationalCompliance |-> 25, semanticRichness |-> 20, agentUsability |-> 20,
   aiDiscoverability |-> 15, security |-> 10, errorRecoverability |-> 10]

PENALTIES == [validationError |-> 12, warning |-> 2, refIssue |-> 15, schemaIssue |-> 8]

MIN_LENGTHS ==
  [operationDescription |-> 20, summary |-> 10, parameterDescription |-> 10,
   schemaDescription |-> 15, apiDescription |-> 50]

HTTP_METHODS == <<"get", "put", "post", "delete", "options", "head", "patch", "trace">>
IDEMPOTENT_METHODS == {"get", "put", "delete", "head", "options"}
PAGINATION_PARAMS ==
  {"page", "limit", "offset", "cursor", "per_page", "page_size", "skip", "take",
   "after", "before"}

errorCodeFields == {"code", "error_code", "errorcode", "status", "type"}
retryFields == {"retry_after", "retryafter", "retry_after_seconds", "retryable"}

\* The four module-level RegExp objects; each carries a lastIndex.
PATTERNS == {"OPENAPI_VERSION", "ACTION_VERBS", "BUSINESS_CONTEXT", "OPERATION_ID"}

\* ------------------------------------------------------- library functions
Range(s) == {s[i] : i \in 1..Len(s)}

Min(a, b) == IF a < b THEN a ELSE b
Max(a, b) == IF a > b THEN a ELSE b

\* Math.round(n / d) for n >= 0, d > 0 over the rationals: the nearest integer,
\* halves upwards.
MathRound(n, d) == (2 * n + d) \div (2 * d)

\* Math.round((a / b) * 100).  The quotient and the product are doubles; for
\* every 0 <= a <= 2 * b with b < 40 the double rounds as the rational does
\* (b = 40 is the first denominator where it does not: 23 / 40 * 100 is
\* 57.49999999999999).
PercentOfRest(a, b) == CASE b < 40 -> MathRound(100 * (b - a), b)
Percent(a, b) == CASE b < 40 -> MathRound(100 * a, b)

\* The doubles of the score sums.  Each is a multiple of 2^-56 below 1024, kept
\* as the numerator N = d[1] + d[2] * 2^22 + d[3] * 2^44.
Limb == 2 ^ 22

DoubleZero == <<0, 0, 0>>

\* The double a literal 0.10 ... 0.40 denotes.
DoubleLiteral(hundredths) ==
  CASE hundredths = 10 -> <<1677722, 2516582, 409>>
    [] hundredths = 15 -> <<2516582, 1677721, 614>>
    [] hundredths = 20 -> <<3355444, 838860, 819>>
    [] hundredths = 25 -> <<0, 0, 1024>>
    [] hundredths = 30 -> <<838860, 3355443, 1228>>
    [] hundredths = 35 -> <<1677720, 2516582, 1433>>
    [] hundredths = 40 -> <<2516584, 1677721, 1638>>

\* Carries the limbs of a sum or product back below Limb.
DoubleCarry(n) ==
  <<n[1] % Limb,
    (n[2] + n[1] \div Limb) % Limb,
    n[3] + (n[2] + n[1] \div Limb) \div Limb>>

RECURSIVE BitLength(_)
BitLength(n) == IF n = 0 THEN 0 ELSE 1 + BitLength(n \div 2)

DoubleBitLength(n) ==
  IF n[3] > 0 THEN 44 + BitLength(n[3])
  ELSE IF n[2] > 0 THEN 22 + BitLength(n[2])
  ELSE BitLength(n[1])

\* n with its `rest` low bits (below `unit`) rounded away: to nearest, ties to
\* even.
DoubleRoundAway(n, unit, rest) ==
  IF 2 * rest > unit \/ (2 * rest = unit /\ (n[1] \div unit) % 2 = 1)
    THEN DoubleCarry(<<n[1] - rest + unit, n[2], n[3]>>)
    ELSE <<n[1] - rest, n[2], n[3]>>

\* The nearest double to an exact result: 53 significant bits are kept.
DoubleRoundTo(n, bits) ==
  IF bits <= 53 THEN n ELSE DoubleRoundAway(n, 2 ^ (bits - 53), n[1] % (2 ^ (bits - 53)))

DoubleRound(n) == DoubleRoundTo(n, DoubleBitLength(n))

\* x + y and k * x in doubles (k an integer below 512).
DoublePlus(x, y) == DoubleRound(DoubleCarry(<<x[1] + y[1], x[2] + y[2], x[3] + y[3]>>))
DoubleTimes(k, x) == DoubleRound(DoubleCarry(<<k * x[1], k * x[2], k * x[3]>>))

\* Math.round of a double: floor(x + 1/2), exactly.
DoubleMathRound(x) == (x[3] + 2 ^ 11) \div (2 ^ 12)

\* a * 0.35 + b * 0.25 + ...: terms[i] is <<a, 35>>; summed left to right.
RECURSIVE WeightedSum(_, _, _)
WeightedSum(terms, i, sum) ==
  IF i > Len(terms) THEN sum
  ELSE WeightedSum(terms, i + 1,
                   DoublePlus(sum, DoubleTimes(terms[i][1], DoubleLiteral(terms[i][2]))))

\* Math.round(a * 0.35 + b * 0.25 + ...)
RoundWeightedSum(terms) == DoubleMathRound(WeightedSum(terms, 1, DoubleZero))

\* String.prototype.toLowerCase over the strings of the model.
ToLowerCase(s) ==
  CASE s = "Limit" -> "limit"
    [] s = "Code" -> "code"
    [] s = "Retry_After" -> "retry_after"
    [] s = "SWAGGER_VALIDATION_ERROR" -> "swagger_validation_error"
    [] s = "ZOD_VALIDATION_SUCCESS" -> "zod_validation_success"
    [] s = "SPECTRAL_VALIDATION_SUCCESS" -> "spectral_validation_success"
    [] s = "Swagger Parser validation failed." -> "swagger parser validation failed."
    [] s = "'#/components/schemas/User' does not exist" ->
           "'#/components/schemas/user' does not exist"
    [] s = "Operation must have non-empty tags array." ->
           "operation must have non-empty tags array."
    [] s = "No schema validation issues found. The specification is valid according to OAS Zod Validator." ->
           "no schema validation issues found. the specification is valid according to oas zod validator."
    [] s = "No linting issues found. The specification is valid according to Spectral." ->
           "no linting issues found. the specification is valid according to spectral."
    [] OTHER -> s

\* String.prototype.includes(sub) over the strings of the model, for the
\* substrings the code searches: 'SUCCESS', 'ref', 'reference', 'schema',
\* 'list', 'search'.
Includes(s, sub) ==
  CASE sub = "SUCCESS" -> s \in {"ZOD_VALIDATION_SUCCESS", "SPECTRAL_VALIDATION_SUCCESS"}
    [] sub = "ref" -> s \in {"invalid-ref"}
    [] sub = "reference" -> FALSE
    [] sub = "schema" ->
         s \in {"'#/components/schemas/user' does not exist",
                "no schema validation issues found. the specification is valid according to oas zod validator.",
                "schemas", "oas3-schema"}
    [] sub = "list" -> s \in {"/search/list"}
    [] sub = "search" -> s \in {"/search/list"}
    [] OTHER -> FALSE

\* String.prototype.endsWith('s') over the path keys of the model.
EndsWith_s(s) == s \in {"/users"}

\* String.prototype.startsWith(prefix) over the server urls of the model.
StartsWith(s, prefix) ==
  CASE prefix = "https://" -> s \in {"https://api.example.com"}
    [] prefix = "{" -> s \in {"{scheme}://api.example.com"}
    [] prefix = "/" -> s \in {"/v1"}
    [] OTHER -> FALSE

\* parseInt over the response keys of the model; NaN is -1 (NaN >= 400 is false).
parseInt(code) ==
  CASE code = "200" -> 200
    [] code = "400" -> 400
    [] code = "404" -> 404
    [] code = "429" -> 429
    [] code = "500" -> 500
    [] code = "4XX" -> 4
    [] OTHER -> -1

\* floor(Math.log10(n) * 250000): Math.log10(n) * 25 in ten-thousandths, for
\* n up to 16 and for n >= 100, where the code's Math.min caps it at 50.
Log10Times25(n) ==
  CASE n = 1 -> 0
    [] n = 2 -> 75257
    [] n = 3 -> 119280
    [] n = 4 -> 150514
    [] n = 5 -> 174742
    [] n = 6 -> 194537
    [] n = 7 -> 211274
    [] n = 8 -> 225772
    [] n = 9 -> 238560
    [] n = 10 -> 250000
    [] n = 11 -> 260348
    [] n = 12 -> 269795
    [] n = 13 -> 278485
    [] n = 14 -> 286532
    [] n = 15 -> 294022
    [] n = 16 -> 301029
    [] n >= 100 -> 500000

\* The double structuralIntegrity * 0.15 for structuralIntegrity =
\* Math.max(0, 100 - Math.min(50, Math.log10(schemaIssues + 1) * 25)).
StructuralIntegrityTimes15(schemaIssues) ==
  CASE schemaIssues = 0 -> DoubleTimes(100, DoubleLiteral(15))
    [] schemaIssues = 1 -> <<2611712, 751898, 56816>>
    [] schemaIssues = 2 -> <<1209856, 1751237, 54111>>
    [] schemaIssues = 3 -> <<1029120, 1503797, 52192>>
    [] schemaIssues = 4 -> <<1582592, 3442405, 50703>>
    [] schemaIssues = 5 -> <<3821568, 2503135, 49487>>
    [] schemaIssues = 6 -> <<1577088, 1233567, 48459>>
    [] schemaIssues = 7 -> <<3640832, 2255695, 47568>>
    [] schemaIssues = 8 -> <<2419712, 3502474, 46782>>
    [] schemaIssues = 9 -> <<0, 0, 46080>>
    [] schemaIssues = 10 -> <<1161728, 873908, 45444>>
    [] schemaIssues = 11 -> <<2238976, 3255034, 44863>>
    [] schemaIssues = 12 -> <<2864512, 3481727, 44329>>
    [] schemaIssues = 13 -> <<4188800, 1985465, 43835>>
    [] schemaIssues = 14 -> <<2792448, 999338, 43375>>
    [] schemaIssues = 15 -> <<2058240, 3007594, 42944>>
    [] schemaIssues >= 99 -> DoubleTimes(50, DoubleLiteral(15))

\* RegExp.prototype.test on a pattern compiled without the g or y flag: the
\* search starts at index 0 and lastIndex is left alone.  matchEnd is the
\* index at which the first match in the string ends, 0 when there is none.
RegExpTestGlobal(lastIdx, matchEnd) ==
  IF matchEnd > lastIdx
    THEN [found |-> TRUE, lastIndex |-> matchEnd]
    ELSE [found |-> FALSE, lastIndex |-> 0]
RegExpTest(lastIdx, matchEnd) == [found |-> matchEnd > 0, lastIndex |-> lastIdx]

\* Array.prototype.filter(...).length
Count(s, Test(_)) == Len(SelectSeq(s, Test))

\* ------------------------------------------------------------- data model
\* A description: its length and where the first ACTION_VERBS and
\* BUSINESS_CONTEXT matches end (0: none).  Length 0 is the absent (or empty,
\* equally falsy) string.
NoText == [length |-> 0, verbEnd |-> 0, nounEnd |-> 0]

\* OperationObject.  operationId.matchEnd: where the OPERATION_ID_PATTERN match
\* ends.  A parameter without name is a $ref parameter ({ $ref: ... }).
NoOperation ==
  [present |-> FALSE,
   operationId |-> [present |-> FALSE, matchEnd |-> 0],
   description |-> NoText,
   summaryLength |-> 0,
   hasParameters |-> FALSE, parameters |-> <<>>,
   hasResponses |-> FALSE, responses |-> <<>>,
   tags |-> 0, security |-> 0, xIdempotent |-> FALSE, requestBodyExample |-> FALSE]

\* PathItem: path[method] for each of the eight methods, and the shared
\* parameters (0 when absent).  isNull: the value under the path key is null,
\* as YAML gives for a key with nothing after the colon.
PathItem(key) ==
  [key |-> key, isNull |-> FALSE, parameters |-> 0,
   operations |-> [m \in Range(HTTP_METHODS) |-> NoOperation]]

\* The value yaml.load returns (kind "unparseable": it throws instead).
\* An object document with every optional section missing:
EmptyDocument ==
  [kind |-> "object",
   openapi |-> [present |-> FALSE, matchEnd |-> 0],
   info |-> [descriptionLength |-> 0, contact |-> FALSE, contactFields |-> {},
             license |-> FALSE, licenseName |-> FALSE, termsOfService |-> FALSE],
   externalDocsUrl |-> FALSE,
   hasServers |-> FALSE, servers |-> <<>>,
   hasTags |-> FALSE, tags |-> <<>>,
   hasPaths |-> FALSE, paths |-> <<>>,
   schemas |-> <<>>,
   securitySchemes |-> <<>>,
   security |-> 0]

\* Signal; value is the number interpolated in the message (0: none), count
\* the count field (-1: undefined).
Signal(type, message, value, count) ==
  [type |-> type, message |-> message, value |-> value, count |-> count]

\* The operations in the order every analyzer visits them: Object.values(paths)
\* outside, HTTP_METHODS inside, skipping the empty slots.
RECURSIVE OperationsOfPath(_, _)
OperationsOfPath(path, i) ==
  IF i > Len(HTTP_METHODS) THEN <<>>
  ELSE LET operation == path.operations[HTTP_METHODS[i]]
       IN (IF operation.present
             THEN <<[pathKey |-> path.key, method |-> HTTP_METHODS[i],
                    operation |-> operation]>>
             ELSE <<>>) \o OperationsOfPath(path, i + 1)

RECURSIVE OperationsOf(_, _)
OperationsOf(paths, i) ==
  IF i > Len(paths) THEN <<>>
  ELSE OperationsOfPath(paths[i], 1) \o OperationsOf(paths, i + 1)

AllOperations(spec) == IF spec.hasPaths THEN OperationsOf(spec.paths, 1) ELSE <<>>

RECURSIVE SumSeq(_, _)
SumSeq(s, i) == IF i > Len(s) THEN 0 ELSE s[i] + SumSeq(s, i + 1)

scoreToGradeStrict(score) ==
  IF score > 90 THEN "A"
  ELSE IF score > 80 THEN "B"
  ELSE IF score > 70 THEN "C"
  ELSE IF score > 60 THEN "D"
  ELSE "F"
scoreToGrade(score) ==
  IF score >= 90 THEN "A"
  ELSE IF score >= 80 THEN "B"
  ELSE IF score >= 70 THEN "C"
  ELSE IF score >= 60 THEN "D"
  ELSE "F"

scoreToReadinessLevelStrict(score) ==
  IF score > 80 THEN "Agent Ready"
  ELSE IF score > 60 THEN "Partially Ready"
  ELSE IF score > 40 THEN "Needs Work"
  ELSE "Not Ready"
scoreToReadinessLevel(score) ==
  IF score >= 80 THEN "Agent Ready"
  ELSE IF score >= 60 THEN "Partially Ready"
  ELSE IF score >= 40 THEN "Needs Work"
  ELSE "Not Ready"

\* const operation = path[method] throws a TypeError on a path item that is
\* null.
gatherStatsThrows(spec) ==
  spec.hasPaths /\ \E i \in 1..Len(spec.paths) : spec.paths[i].isNull

gatherStats(spec) ==
  LET ops == AllOperations(spec)
      opParams == [i \in 1..Len(ops) |->
                     IF ops[i].operation.hasParameters
                       THEN Len(ops[i].operation.parameters) ELSE 0]
      pathParams == [i \in 1..Len(spec.paths) |-> spec.paths[i].parameters]
  IN [operations |-> Len(ops),
      schemas |-> Len(spec.schemas),
      parameters |-> SumSeq(opParams, 1)
                       + (IF spec.hasPaths THEN SumSeq(pathParams, 1) ELSE 0),
      tags |-> IF spec.hasTags THEN Len(spec.tags) ELSE 0,
      securitySchemes |-> Len(spec.securitySchemes)]

\* ---------------------------------------------- Foundational Compliance
IsError(r) == r.severity = "error" /\ ~Includes(r.code, "SUCCESS")
IsWarning(r) == r.severity = "warning"
IsRefIssue(r) ==
  \/ Includes(ToLowerCase(r.message), "ref")
  \/ Includes(ToLowerCase(r.message), "reference")
  \/ Includes(ToLowerCase(r.code), "ref")
IsSchemaIssue(r) ==
  \/ r.category = "schema"
  \/ Includes(ToLowerCase(r.message), "schema")
  \/ \E i \in 1..Len(r.path) : Includes(ToLowerCase(r.path[i]), "schema")

specificationValidityInverted(errors) ==
  IF errors = 0 THEN Max(0, 100 - 12) ELSE 100
specificationValidityOf(errors) ==
  IF errors = 0 THEN 100 ELSE Max(0, 100 - errors * PENALTIES.validationError)

lintResultsNoFloor(errors, warnings) ==
  100 - errors * PENALTIES.schemaIssue - warnings * PENALTIES.warning
lintResultsOf(errors, warnings) ==
  Max(0, 100 - errors * PENALTIES.schemaIssue - warnings * PENALTIES.warning)

resolutionCompletenessOf(refIssues) ==
  IF refIssues = 0 THEN 100 ELSE Max(0, 100 - refIssues * PENALTIES.refIssue)

\* In ten-thousandths: 100 - min(50, log10(n + 1) * 25).
structuralIntegrityOf(schemaIssues) ==
  IF schemaIssues = 0 THEN 1000000
  ELSE Max(0, 1000000 - Min(500000, Log10Times25(schemaIssues + 1)))

Plural(n, one, many) == IF n > 1 THEN many ELSE one

analyzeFoundationalCompliance(results, spec, lastIdx) ==
  LET errors == Count(results, IsError)
      warnings == Count(results, IsWarning)
      versionTest == IF spec.openapi.present
                       THEN RegExpTest(lastIdx["OPENAPI_VERSION"], spec.openapi.matchEnd)
                       ELSE [found |-> FALSE, lastIndex |-> lastIdx["OPENAPI_VERSION"]]
      hasValidVersion == versionTest.found
      refIssues == Count(results, IsRefIssue)
      schemaIssues == Count(results, IsSchemaIssue)
      specificationValidity == specificationValidityOf(errors)
      lintResults == lintResultsOf(errors, warnings)
      resolutionCompleteness == resolutionCompletenessOf(refIssues)
      structuralIntegrity == structuralIntegrityOf(schemaIssues)
      signals ==
        (IF hasValidVersion
           THEN <<Signal("positive", "OpenAPI specification", 0, -1)>>
           ELSE <<Signal("negative", "Missing or invalid OpenAPI version", 0, -1)>>)
        \o (IF errors > 0
              THEN <<Signal("negative", Plural(errors, "validation error", "validation errors"),
                            errors, errors)>>
              ELSE <<Signal("positive", "No validation errors", 0, -1)>>)
        \o (IF refIssues > 0
              THEN <<Signal("negative",
                            Plural(refIssues, "unresolved reference", "unresolved references"),
                            refIssues, refIssues)>>
              ELSE <<>>)
        \o (IF schemaIssues > 0
              THEN <<Signal("negative", Plural(schemaIssues, "schema issue", "schema issues"),
                            schemaIssues, schemaIssues)>>
              ELSE <<>>)
      score == DoubleMathRound(
                 DoublePlus(WeightedSum(<<<<specificationValidity, 35>>,
                                          <<lintResults, 25>>,
                                          <<resolutionCompleteness, 25>>>>, 1, DoubleZero),
                            StructuralIntegrityTimes15(schemaIssues)))
      improvementTips ==
        (IF errors > 0 THEN <<"Resolve all validation errors">> ELSE <<>>)
        \o (IF refIssues > 0 THEN <<"Fix broken $ref references">> ELSE <<>>)
        \o (IF schemaIssues > 0 THEN <<"Correct schema definitions">> ELSE <<>>)
  IN [dimension |->
        [score |-> score,
         grade |-> scoreToGrade(score),
         label |-> "Foundational Compliance",
         signals |-> signals,
         details |-> [specificationValidity |-> specificationValidity,
                      lintResults |-> lintResults,
                      resolutionCompleteness |-> resolutionCompleteness,
                      structuralIntegrity |-> structuralIntegrity],
         improvementTips |-> improvementTips,
         appearCanHelp |-> (errors > 0 \/ schemaIssues > 0)],
      lastIndex |-> [lastIdx EXCEPT !["OPENAPI_VERSION"] = versionTest.lastIndex]]

\* --------------------------------------------------- Semantic Richness
HasDescription(entry) ==
  entry.operation.description.length >= MIN_LENGTHS.operationDescription
HasSummary(entry) == entry.operation.summaryLength >= MIN_LENGTHS.summary
ParameterDescribed(p) == p.descriptionLength >= MIN_LENGTHS.parameterDescription
SchemaDescribed(s) == s.descriptionLength >= MIN_LENGTHS.schemaDescription

\* The two pattern tests of the loop body, operation by operation: the hits
\* (naturalLanguageQuality) and the lastIndex of the two patterns.
RECURSIVE NaturalLanguageScan(_, _, _)
NaturalLanguageScan(ops, i, acc) ==
  IF i > Len(ops) THEN acc
  ELSE IF ~HasDescription(ops[i]) THEN NaturalLanguageScan(ops, i + 1, acc)
  ELSE LET verb == RegExpTest(acc.verbs, ops[i].operation.description.verbEnd)
           noun == RegExpTest(acc.business, ops[i].operation.description.nounEnd)
       IN NaturalLanguageScan(ops, i + 1,
            [quality |-> acc.quality + (IF verb.found THEN 1 ELSE 0)
                                     + (IF noun.found THEN 1 ELSE 0),
             verbs |-> verb.lastIndex,
             business |-> noun.lastIndex])

\* for (const param of operation.parameters) over every operation
RECURSIVE OperationParameters(_, _)
OperationParameters(ops, i) ==
  IF i > Len(ops) THEN <<>>
  ELSE (IF ops[i].operation.hasParameters THEN ops[i].operation.parameters ELSE <<>>)
         \o OperationParameters(ops, i + 1)

analyzeSemanticRichness(spec, stats, lastIdx) ==
  LET ops == AllOperations(spec)
      operationsWithDescription == Count(ops, HasDescription)
      operationsWithSummary == Count(ops, HasSummary)
      scan == NaturalLanguageScan(ops, 1,
                [quality |-> 0, verbs |-> lastIdx["ACTION_VERBS"],
                 business |-> lastIdx["BUSINESS_CONTEXT"]])
      naturalLanguageQuality == scan.quality
      params == OperationParameters(ops, 1)
      totalParameters == Len(params)
      parametersWithDescription == Count(params, ParameterDescribed)
      schemasWithDescription == Count(spec.schemas, SchemaDescribed)
      descriptionCoverage ==
        IF stats.operations > 0 THEN Percent(operationsWithDescription, stats.operations) ELSE 0
      summaryCoverage ==
        IF stats.operations > 0 THEN Percent(operationsWithSummary, stats.operations) ELSE 0
      parameterDescriptions ==
        IF totalParameters > 0 THEN Percent(parametersWithDescription, totalParameters) ELSE 0
      schemaDescriptions ==
        IF stats.schemas > 0 THEN Percent(schemasWithDescription, stats.schemas) ELSE 0
      nlQuality ==
        IF stats.operations > 0
          THEN Percent(naturalLanguageQuality, stats.operations * 2) ELSE 0
      signals ==
        (IF descriptionCoverage >= 80
           THEN <<Signal("positive", "% operations have descriptions", descriptionCoverage, -1)>>
           ELSE <<Signal("negative", "% operations missing descriptions",
                         100 - descriptionCoverage,
                         stats.operations - operationsWithDescription)>>)
        \o (IF parameterDescriptions >= 70
              THEN <<Signal("positive", "% parameters documented", parameterDescriptions, -1)>>
              ELSE IF totalParameters > 0
                THEN <<Signal("negative", "% parameters undocumented",
                              100 - parameterDescriptions,
                              totalParameters - parametersWithDescription)>>
                ELSE <<>>)
        \o (IF nlQuality < 50 /\ stats.operations > 0
              THEN <<Signal("negative", "Descriptions lack natural language context", 0, -1)>>
              ELSE <<>>)
      score == RoundWeightedSum(<<<<descriptionCoverage, 30>>,
                                  <<summaryCoverage, 15>>,
                                  <<parameterDescriptions, 20>>,
                                  <<schemaDescriptions, 15>>,
                                  <<nlQuality, 20>>>>)
      improvementTips ==
        (IF descriptionCoverage < 80 THEN <<"Add descriptions to operations">> ELSE <<>>)
        \o (IF parameterDescriptions < 70 THEN <<"Document parameters">> ELSE <<>>)
        \o (IF nlQuality < 50 THEN <<"Use action verbs and business context">> ELSE <<>>)
  IN [dimension |->
        [score |-> score,
         grade |-> scoreToGrade(score),
         label |-> "Semantic Richness",
         signals |-> signals,
         details |-> [descriptionCoverage |-> descriptionCoverage,
                      summaryCoverage |-> summaryCoverage,
                      parameterDescriptions |-> parameterDescriptions,
                      schemaDescriptions |-> schemaDescriptions,
                      naturalLanguageQuality |-> nlQuality],
         improvementTips |-> improvementTips,
         appearCanHelp |-> TRUE],
      lastIndex |-> [lastIdx EXCEPT !["ACTION_VERBS"] = scan.verbs,
                                    !["BUSINESS_CONTEXT"] = scan.business]]

\* ------------------------------------------------------ Agent Usability
HasOperationId(entry) == entry.operation.operationId.present

\* OPERATION_ID_PATTERN.test(operation.operationId), operation by operation.
RECURSIVE OperationIdScan(_, _, _)
OperationIdScan(ops, i, acc) ==
  IF i > Len(ops) THEN acc
  ELSE IF ~HasOperationId(ops[i]) THEN OperationIdScan(ops, i + 1, acc)
  ELSE LET t == RegExpTest(acc.lastIndex, ops[i].operation.operationId.matchEnd)
       IN OperationIdScan(ops, i + 1,
            [wellNamed |-> acc.wellNamed + (IF t.found THEN 1 ELSE 0),
             lastIndex |-> t.lastIndex])

IsIdempotent(entry) ==
  entry.method \in IDEMPOTENT_METHODS \/ entry.operation.xIdempotent

\* isListOperation && operation.parameters
IsCountedListOperation(entry) ==
  /\ entry.method = "get"
  /\ \/ EndsWith_s(entry.pathKey)
     \/ Includes(entry.pathKey, "list")
     \/ Includes(entry.pathKey, "search")
  /\ entry.operation.hasParameters

\* operation.parameters.some(p => PAGINATION_PARAMS.includes(p.name.toLowerCase())):
\* the parameters are visited in order up to the first hit; p.name.toLowerCase()
\* throws a TypeError on a parameter without name.
RECURSIVE SomePagination(_, _)
SomePagination(params, i) ==
  IF i > Len(params) THEN "false"
  ELSE IF ~params[i].hasName THEN "throws"
  ELSE IF ToLowerCase(params[i].name) \in PAGINATION_PARAMS THEN "true"
  ELSE SomePagination(params, i + 1)

HasPagination(entry) ==
  IsCountedListOperation(entry) /\ SomePagination(entry.operation.parameters, 1) = "true"
PaginationThrows(entry) ==
  IsCountedListOperation(entry) /\ SomePagination(entry.operation.parameters, 1) = "throws"

IsErrorCode(code) == parseInt(code) >= 400
HasErrorResponses(entry) ==
  /\ entry.operation.hasResponses
  /\ \E i \in 1..Len(entry.operation.responses) :
       IsErrorCode(entry.operation.responses[i].code)

paginationCoverageNoDefault(operationsWithPagination, listOperations) ==
  IF listOperations > 0 THEN Percent(operationsWithPagination, listOperations) ELSE 0
paginationCoverageOf(operationsWithPagination, listOperations) ==
  IF listOperations > 0 THEN Percent(operationsWithPagination, listOperations) ELSE 100

analyzeAgentUsabilityThrows(spec) ==
  LET ops == AllOperations(spec) IN \E i \in 1..Len(ops) : PaginationThrows(ops[i])

analyzeAgentUsability(spec, stats, lastIdx) ==
  LET ops == AllOperations(spec)
      operationsWithId == Count(ops, HasOperationId)
      scan == OperationIdScan(ops, 1,
                [wellNamed |-> 0, lastIndex |-> lastIdx["OPERATION_ID"]])
      wellNamedOperationIds == scan.wellNamed
      idempotentOperations == Count(ops, IsIdempotent)
      listOperations == Count(ops, IsCountedListOperation)
      operationsWithPagination == Count(ops, HasPagination)
      operationsWithErrorResponses == Count(ops, HasErrorResponses)
      operationIdCoverage ==
        IF stats.operations > 0 THEN Percent(operationsWithId, stats.operations) ELSE 0
      operationIdQuality ==
        IF operationsWithId > 0 THEN Percent(wellNamedOperationIds, operationsWithId) ELSE 0
      idempotencyScore ==
        IF stats.operations > 0 THEN Percent(idempotentOperations, stats.operations) ELSE 0
      errorResponseCoverage ==
        IF stats.operations > 0
          THEN Percent(operationsWithErrorResponses, stats.operations) ELSE 0
      paginationCoverage == paginationCoverageOf(operationsWithPagination, listOperations)
      signals ==
        (IF operationIdCoverage = 100
           THEN <<Signal("positive", "All operations have operationId", 0, -1)>>
           ELSE IF operationIdCoverage > 0
             THEN <<Signal("negative", "operations missing operationId",
                           stats.operations - operationsWithId,
                           stats.operations - operationsWithId)>>
             ELSE <<Signal("negative", "No operationIds defined", 0, -1)>>)
        \o (IF operationIdQuality < 50 /\ operationsWithId > 0
              THEN <<Signal("negative", "OperationIds lack verb-noun naming", 0, -1)>>
              ELSE <<>>)
        \o (IF idempotencyScore >= 70
              THEN <<Signal("positive", "% operations are idempotent or safe",
                            idempotencyScore, -1)>>
              ELSE <<>>)
        \o (IF listOperations > 0
              THEN (IF paginationCoverage >= 70
                      THEN <<Signal("positive", "% list operations support pagination",
                                    paginationCoverage, -1)>>
                      ELSE <<Signal("negative", "Many list operations lack pagination parameters",
                                    0, -1)>>)
              ELSE <<>>)
      score == RoundWeightedSum(<<<<operationIdCoverage, 30>>,
                                  <<operationIdQuality, 20>>,
                                  <<idempotencyScore, 20>>,
                                  <<errorResponseCoverage, 20>>,
                                  <<paginationCoverage, 10>>>>)
      improvementTips ==
        (IF operationIdCoverage < 100 THEN <<"Add unique operationId">> ELSE <<>>)
        \o (IF operationIdQuality < 50 THEN <<"Use verb-noun format">> ELSE <<>>)
        \o (IF idempotencyScore < 70 THEN <<"Mark non-GET operations as idempotent">> ELSE <<>>)
        \o (IF listOperations > 0 /\ paginationCoverage < 70
              THEN <<"Add standard pagination parameters">> ELSE <<>>)
  IN [dimension |->
        [score |-> score,
         grade |-> scoreToGrade(score),
         label |-> "Agent Usability",
         signals |-> signals,
         details |-> [operationIdCoverage |-> operationIdCoverage,
                      operationIdQuality |-> operationIdQuality,
                      idempotencyScore |-> idempotencyScore,
                      errorResponseCoverage |-> errorResponseCoverage,
                      paginationCoverage |-> paginationCoverage],
         improvementTips |-> improvementTips,
         appearCanHelp |-> TRUE],
      lastIndex |-> [lastIdx EXCEPT !["OPERATION_ID"] = scan.lastIndex]]

\* ---------------------------------------------------- AI Discoverability
HasTags(entry) == entry.operation.tags > 0
HasRequestExample(entry) == entry.operation.requestBodyExample
HasExample(entry) ==
  \/ entry.operation.requestBodyExample
  \/ /\ entry.operation.hasResponses
     /\ \E i \in 1..Len(entry.operation.responses) : entry.operation.responses[i].hasExample
SchemaHasExample(s) == s.hasExample
TagDescribed(t) == t.descriptionLength >= 10

analyzeAIDiscoverability(spec, stats) ==
  LET ops == AllOperations(spec)
      metadataScore ==
        (IF spec.info.descriptionLength >= MIN_LENGTHS.apiDescription THEN 20 ELSE 0)
        + (IF spec.info.contact THEN 15 ELSE 0)
        + (IF spec.info.license THEN 10 ELSE 0)
        + (IF spec.externalDocsUrl THEN 15 ELSE 0)
        + (IF spec.hasServers /\ Len(spec.servers) > 0
             THEN 20 + (IF \E i \in 1..Len(spec.servers) : spec.servers[i].hasDescription
                          THEN 20 ELSE 0)
             ELSE 0)
      hasTagDescriptions ==
        spec.hasTags /\ \A i \in 1..Len(spec.tags) : TagDescribed(spec.tags[i])
      operationsWithTags == Count(ops, HasTags)
      operationsWithExamples == Count(ops, HasExample)
      schemasWithExamples == Count(spec.schemas, SchemaHasExample)
      exampleCoverage ==
        IF stats.operations > 0 THEN Percent(operationsWithExamples, stats.operations) ELSE 0
      tagCoverage ==
        IF stats.operations > 0 THEN Percent(operationsWithTags, stats.operations) ELSE 0
      schemaExamples ==
        IF stats.schemas > 0 THEN Percent(schemasWithExamples, stats.schemas) ELSE 0
      signals ==
        (IF hasTagDescriptions /\ spec.hasTags /\ Len(spec.tags) > 0
           THEN <<Signal("positive", "well-documented tags", Len(spec.tags), -1)>>
           ELSE <<>>)
        \o (IF exampleCoverage >= 50
              THEN <<Signal("positive", "% operations have examples", exampleCoverage, -1)>>
              ELSE <<Signal("negative", "% operations missing examples",
                            100 - exampleCoverage,
                            stats.operations - operationsWithExamples)>>)
        \o (IF tagCoverage >= 80
              THEN <<Signal("positive", "% operations categorized with tags", tagCoverage, -1)>>
              ELSE IF stats.operations > 0
                THEN <<Signal("negative", "% operations missing tags", 100 - tagCoverage, -1)>>
                ELSE <<>>)
        \o (IF metadataScore < 60
              THEN <<Signal("negative", "Incomplete API metadata", 0, -1)>>
              ELSE <<>>)
      score == RoundWeightedSum(<<<<exampleCoverage, 35>>,
                                  <<schemaExamples, 20>>,
                                  <<tagCoverage, 20>>,
                                  <<metadataScore, 25>>>>)
      improvementTips ==
        (IF exampleCoverage < 50 THEN <<"Add request/response examples">> ELSE <<>>)
        \o (IF tagCoverage < 80 THEN <<"Organize operations with tags">> ELSE <<>>)
        \o (IF metadataScore < 60 THEN <<"Complete API info section">> ELSE <<>>)
  IN [score |-> score,
      grade |-> scoreToGrade(score),
      label |-> "AI Discoverability",
      signals |-> signals,
      details |-> [exampleCoverage |-> exampleCoverage,
                   schemaExamples |-> schemaExamples,
                   tagCoverage |-> tagCoverage,
                   metadataCompleteness |-> metadataScore],
      improvementTips |-> improvementTips,
      appearCanHelp |-> TRUE]

\* --------------------------------------------------------------- Security
\* spec.servers.every(s => s.url.startsWith('https://') || ...): the servers
\* are visited in order up to the first that fails; s.url.startsWith throws a
\* TypeError on a server without url.
RECURSIVE EverySecure(_, _)
EverySecure(servers, i) ==
  IF i > Len(servers) THEN "true"
  ELSE IF ~servers[i].hasUrl THEN "throws"
  ELSE IF \/ StartsWith(servers[i].url, "https://")
          \/ StartsWith(servers[i].url, "{")
          \/ StartsWith(servers[i].url, "/")
    THEN EverySecure(servers, i + 1)
  ELSE "false"

IsOAuth(s) == s.type = "oauth2"
IsApiKey(s) == s.type = "apiKey"
IsBearer(s) == s.type = "http" /\ s.scheme = "bearer"

analyzeSecurityThrows(spec) == spec.hasServers /\ EverySecure(spec.servers, 1) = "throws"

analyzeSecurity(spec, stats) ==
  LET ops == AllOperations(spec)
      schemeCount == Len(spec.securitySchemes)
      hasGlobalSecurity == spec.security > 0
      hasOAuth == Count(spec.securitySchemes, IsOAuth) > 0
      hasApiKey == Count(spec.securitySchemes, IsApiKey) > 0
      hasBearerToken == Count(spec.securitySchemes, IsBearer) > 0
      \* spec.servers?.every(...) ?? false
      hasSecureServers ==
        IF spec.hasServers THEN EverySecure(spec.servers, 1) = "true" ELSE FALSE
      Secured(entry) == hasGlobalSecurity \/ entry.operation.security > 0
      operationsWithSecurity == Count(ops, Secured)
      schemeScore == IF schemeCount > 0 THEN Min(100, schemeCount * 40) ELSE 0
      coverageScore ==
        IF stats.operations > 0 THEN Percent(operationsWithSecurity, stats.operations) ELSE 0
      httpsScore == IF hasSecureServers THEN 100 ELSE 0
      signals ==
        (IF schemeCount > 0
           THEN <<Signal("positive",
                         Plural(schemeCount, "security scheme defined",
                                "security schemes defined"), schemeCount, -1)>>
           ELSE <<Signal("negative", "No security schemes defined", 0, -1)>>)
        \o (IF hasGlobalSecurity
              THEN <<Signal("positive", "Global security applied", 0, -1)>>
              ELSE IF coverageScore < 100 /\ stats.operations > 0
                THEN <<Signal("negative", "operations without security",
                              stats.operations - operationsWithSecurity, -1)>>
                ELSE <<>>)
        \o (IF hasOAuth THEN <<Signal("positive", "OAuth 2.0 supported", 0, -1)>> ELSE <<>>)
      score == RoundWeightedSum(<<<<schemeScore, 40>>,
                                  <<coverageScore, 40>>,
                                  <<httpsScore, 20>>>>)
      improvementTips ==
        (IF schemeCount = 0 THEN <<"Define security schemes">> ELSE <<>>)
        \o (IF ~hasGlobalSecurity /\ coverageScore < 100
              THEN <<"Apply security globally">> ELSE <<>>)
        \o (IF hasApiKey /\ ~hasOAuth /\ ~hasBearerToken
              THEN <<"Consider adding OAuth2 or Bearer token support">> ELSE <<>>)
  IN [score |-> score,
      grade |-> scoreToGrade(score),
      label |-> "Security",
      signals |-> signals,
      details |-> [securitySchemes |-> schemeScore,
                   securityCoverage |-> coverageScore,
                   httpsSupport |-> httpsScore],
      improvementTips |-> improvementTips,
      appearCanHelp |-> (schemeCount = 0)]

\* --------------------------------------------------- Error Recoverability
IsErrorResponse(response) == IsErrorCode(response.code)
HasSchema(response) == response.hasJsonSchema
PropNames(response) == {ToLowerCase(response.properties[i]) : i \in 1..Len(response.properties)}
HasErrorCodeField(response) ==
  response.hasJsonSchema /\ PropNames(response) \cap errorCodeFields # {}
HasRetryField(response) ==
  response.hasJsonSchema /\ PropNames(response) \cap retryFields # {}

\* Object.entries(operation.responses).filter(([code]) => parseInt(code) >= 400)
\* over every operation that has responses.
RECURSIVE ErrorResponsesOf(_, _)
ErrorResponsesOf(ops, i) ==
  IF i > Len(ops) THEN <<>>
  ELSE (IF ops[i].operation.hasResponses
          THEN SelectSeq(ops[i].operation.responses, IsErrorResponse) ELSE <<>>)
         \o ErrorResponsesOf(ops, i + 1)

\* if (!operation?.responses) continue; ... if (errorResponses.length > 0)
HasErrorEntriesClientOnly(entry) ==
  /\ entry.operation.hasResponses
  /\ \E i \in 1..Len(entry.operation.responses) :
       /\ parseInt(entry.operation.responses[i].code) >= 400
       /\ parseInt(entry.operation.responses[i].code) < 500
HasErrorEntries(entry) ==
  /\ entry.operation.hasResponses
  /\ Len(SelectSeq(entry.operation.responses, IsErrorResponse)) > 0

analyzeErrorRecoverability(spec, stats) ==
  LET ops == AllOperations(spec)
      operationsWithErrors == Count(ops, HasErrorEntries)
      \* the three counters are incremented inside the loop over errorResponses
      errorResponses == ErrorResponsesOf(ops, 1)
      operationsWithErrorSchemas == Count(errorResponses, HasSchema)
      operationsWithErrorCodes == Count(errorResponses, HasErrorCodeField)
      operationsWithRetryInfo == Count(errorResponses, HasRetryField)
      errorCoverage ==
        IF stats.operations > 0 THEN Percent(operationsWithErrors, stats.operations) ELSE 0
      structuredErrors ==
        IF operationsWithErrors > 0
          THEN Percent(operationsWithErrorSchemas, operationsWithErrors) ELSE 0
      errorCodeSupport ==
        IF operationsWithErrors > 0
          THEN Percent(operationsWithErrorCodes, operationsWithErrors) ELSE 0
      retrySupport ==
        IF operationsWithErrors > 0
          THEN Percent(operationsWithRetryInfo, operationsWithErrors) ELSE 0
      signals ==
        (IF errorCoverage >= 80
           THEN <<Signal("positive", "% operations define error responses", errorCoverage, -1)>>
           ELSE <<Signal("negative", "% operations missing error responses",
                         100 - errorCoverage, -1)>>)
        \o (IF structuredErrors >= 50
              THEN <<Signal("positive", "Error responses have structured schemas", 0, -1)>>
              ELSE IF operationsWithErrors > 0
                THEN <<Signal("negative", "Error responses lack structured schemas", 0, -1)>>
                ELSE <<>>)
        \o (IF retrySupport > 0
              THEN <<Signal("positive", "Some errors include retry guidance", 0, -1)>>
              ELSE IF operationsWithErrors > 0
                THEN <<Signal("negative", "No retry guidance in error responses", 0, -1)>>
                ELSE <<>>)
      score == RoundWeightedSum(<<<<errorCoverage, 35>>,
                                  <<structuredErrors, 30>>,
                                  <<errorCodeSupport, 20>>,
                                  <<retrySupport, 15>>>>)
      improvementTips ==
        (IF errorCoverage < 80 THEN <<"Define error responses">> ELSE <<>>)
        \o (IF structuredErrors < 50 THEN <<"Use structured error schemas">> ELSE <<>>)
        \o (IF retrySupport = 0 THEN <<"Add retry_after or retryable fields">> ELSE <<>>)
  IN [score |-> score,
      grade |-> scoreToGrade(score),
      label |-> "Error Recoverability",
      signals |-> signals,
      details |-> [errorCoverage |-> errorCoverage,
                   structuredErrors |-> structuredErrors,
                   errorCodeSupport |-> errorCodeSupport,
                   retrySupport |-> retrySupport],
      improvementTips |-> improvementTips,
      appearCanHelp |-> (errorCoverage < 80 \/ structuredErrors < 50)]

\* ------------------------------------------------ recommendations, summary
Recommendation(priority, dimension, title) ==
  [priority |-> priority, dimension |-> dimension, title |-> title, automatable |-> TRUE]

HasPriority(r, p) == r.priority = p

\* recommendations.sort((a, b) => priorityOrder[a.priority] - priorityOrder[b.priority]):
\* Array.prototype.sort is stable, so each rank keeps its insertion order.
SortByPriorityDescending(recommendations) ==
  LET Critical(r) == HasPriority(r, "critical")
      High(r) == HasPriority(r, "high")
      Medium(r) == HasPriority(r, "medium")
      Low(r) == HasPriority(r, "low")
  IN SelectSeq(recommendations, Low) \o SelectSeq(recommendations, Medium)
       \o SelectSeq(recommendations, High) \o SelectSeq(recommendations, Critical)
SortByPriority(recommendations) ==
  LET Critical(r) == HasPriority(r, "critical")
      High(r) == HasPriority(r, "high")
      Medium(r) == HasPriority(r, "medium")
      Low(r) == HasPriority(r, "low")
  IN SelectSeq(recommendations, Critical) \o SelectSeq(recommendations, High)
       \o SelectSeq(recommendations, Medium) \o SelectSeq(recommendations, Low)

generateRecommendationsNoSecurity(dimensions) ==
  SortByPriority(
    (IF dimensions.foundationalCompliance.score < 80
       THEN <<Recommendation(
                IF dimensions.foundationalCompliance.score < 50 THEN "critical" ELSE "high",
                "Foundational Compliance", "Fix Structural Validity Issues")>>
       ELSE <<>>)
    \o (IF dimensions.semanticRichness.score < 70
          THEN <<Recommendation("high", "Semantic Richness",
                                "Enrich Descriptions for AI Understanding")>>
          ELSE <<>>)
    \o (IF dimensions.agentUsability.score < 70
          THEN <<Recommendation(
                   IF dimensions.agentUsability.details.operationIdCoverage < 50
                     THEN "high" ELSE "medium",
                   "Agent Usability", "Add OperationIds and Improve Naming")>>
          ELSE <<>>)
    \o (IF dimensions.aiDiscoverability.score < 60
          THEN <<Recommendation("medium", "AI Discoverability", "Add Examples and Tags")>>
          ELSE <<>>)
    \o (IF dimensions.errorRecoverability.score < 60
          THEN <<Recommendation("medium", "Error Recoverability",
                                "Structure Error Responses")>>
          ELSE <<>>))

generateRecommendations(dimensions) ==
  SortByPriority(
    (IF dimensions.foundationalCompliance.score < 80
       THEN <<Recommendation(
                IF dimensions.foundationalCompliance.score < 50 THEN "critical" ELSE "high",
                "Foundational Compliance", "Fix Structural Validity Issues")>>
       ELSE <<>>)
    \o (IF dimensions.semanticRichness.score < 70
          THEN <<Recommendation("high", "Semantic Richness",
                                "Enrich Descriptions for AI Understanding")>>
          ELSE <<>>)
    \o (IF dimensions.agentUsability.score < 70
          THEN <<Recommendation(
                   IF dimensions.agentUsability.details.operationIdCoverage < 50
                     THEN "high" ELSE "medium",
                   "Agent Usability", "Add OperationIds and Improve Naming")>>
          ELSE <<>>)
    \o (IF dimensions.aiDiscoverability.score < 60
          THEN <<Recommendation("medium", "AI Discoverability", "Add Examples and Tags")>>
          ELSE <<>>)
    \o (IF dimensions.security.score < 80
          THEN <<Recommendation(
                   IF dimensions.security.score < 40 THEN "high" ELSE "medium",
                   "Security", "Document Authentication Methods")>>
          ELSE <<>>)
    \o (IF dimensions.errorRecoverability.score < 60
          THEN <<Recommendation("medium", "Error Recoverability",
                                "Structure Error Responses")>>
          ELSE <<>>))

IsAutomatable(r) == r.automatable
IsCritical(r) == r.priority = "critical"

\* The three calls to action; automatableCount is interpolated in the last two.
generateAppearCTA(overallScore, recommendations) ==
  LET automatableCount == Count(recommendations, IsAutomatable)
      hasCritical == Count(recommendations, IsCritical) > 0
  IN IF overallScore >= 80
       THEN [headline |-> "Keep Your API Agent-Ready", issues |-> -1]
     ELSE IF hasCritical \/ overallScore < 40
       THEN [headline |-> "Automate Your Path to Agent-Ready", issues |-> automatableCount]
     ELSE [headline |-> "Make Your API Agent-Ready Faster", issues |-> automatableCount]

\* The summary: which of the four templates, the level and the operation
\* count interpolated in it (-1: the template does not mention it).
generateSummary(score, grade, level, stats) ==
  LET opText == IF stats.operations = 1 THEN "operation" ELSE "operations"
  IN IF score >= 80
       THEN [template |-> "strong documentation", level |-> level,
             operations |-> stats.operations, opText |-> opText]
     ELSE IF score >= 60
       THEN [template |-> "opportunities to improve", level |-> level,
             operations |-> stats.operations, opText |-> opText]
     ELSE IF score >= 40
       THEN [template |-> "focus on the critical improvements", level |-> level,
             operations |-> -1, opText |-> ""]
     ELSE [template |-> "significant improvements are needed", level |-> level,
           operations |-> stats.operations, opText |-> opText]

createErrorScore(message) ==
  LET emptyDimension(label) ==
        [score |-> 0, grade |-> "F", label |-> label,
         signals |-> <<[type |-> "negative", message |-> message, value |-> 0, count |-> -1]>>,
         details |-> <<>>,
         improvementTips |-> <<>>,
         appearCanHelp |-> TRUE]
  IN [overallScore |-> 0,
      grade |-> "F",
      readinessLevel |-> "Not Ready",
      summary |-> [template |-> message, level |-> "", operations |-> -1, opText |-> ""],
      dimensions |->
        [foundationalCompliance |-> emptyDimension("Foundational Compliance"),
         semanticRichness |-> emptyDimension("Semantic Richness"),
         agentUsability |-> emptyDimension("Agent Usability"),
         aiDiscoverability |-> emptyDimension("AI Discoverability"),
         security |-> emptyDimension("Security"),
         errorRecoverability |-> emptyDimension("Error Recoverability")],
      stats |-> [operations |-> 0, schemas |-> 0, parameters |-> 0, tags |-> 0,
                 securitySchemes |-> 0],
      recommendations |->
        <<[priority |-> "critical", dimension |-> "foundationalCompliance",
           title |-> "Fix Specification Parsing", automatable |-> TRUE]>>,
      appearCTA |-> generateAppearCTA(0, <<>>)]

\* ------------------------------------------- calculateAgentReadinessScore
\* typeof spec !== 'object' || spec === null, or yaml.load threw
ParseFailsNotObject(specContent) == specContent.kind \in {"scalar", "null"}
ParseFails(specContent) == specContent.kind \in {"unparseable", "scalar", "null"}

OverallScoreEvenWeights(d) ==
  RoundWeightedSum(<<<<d.foundationalCompliance.score, 20>>,
                     <<d.semanticRichness.score, 20>>,
                     <<d.agentUsability.score, 20>>,
                     <<d.aiDiscoverability.score, 20>>,
                     <<d.security.score, 10>>,
                     <<d.errorRecoverability.score, 10>>>>)
OverallScore(d) ==
  RoundWeightedSum(<<<<d.foundationalCompliance.score, WEIGHTS.foundationalCompliance>>,
                     <<d.semanticRichness.score, WEIGHTS.semanticRichness>>,
                     <<d.agentUsability.score, WEIGHTS.agentUsability>>,
                     <<d.aiDiscoverability.score, WEIGHTS.aiDiscoverability>>,
                     <<d.security.score, WEIGHTS.security>>,
                     <<d.errorRecoverability.score, WEIGHTS.errorRecoverability>>>>)

\* METHODOLOGY: the published weights and thresholds (weight is WEIGHTS[id];
\* weightPercent, min are the literals written there).
METHODOLOGY ==
  [dimensions |->
     <<[id |-> "foundationalCompliance", name |-> "Foundational Compliance",
        weight |-> WEIGHTS.foundationalCompliance, weightPercent |-> 25],
       [id |-> "semanticRichness", name |-> "Semantic Richness",
        weight |-> WEIGHTS.semanticRichness, weightPercent |-> 20],
       [id |-> "agentUsability", name |-> "Agent Usability",
        weight |-> WEIGHTS.agentUsability, weightPercent |-> 20],
       [id |-> "aiDiscoverability", name |-> "AI Discoverability",
        weight |-> WEIGHTS.aiDiscoverability, weightPercent |-> 15],
       [id |-> "security", name |-> "Security",
        weight |-> WEIGHTS.security, weightPercent |-> 10],
       [id |-> "errorRecoverability", name |-> "Error Recoverability",
        weight |-> WEIGHTS.errorRecoverability, weightPercent |-> 10]>>,
   gradeThresholds |-> [A |-> 90, B |-> 80, C |-> 70, D |-> 60, F |-> 0],
   readinessLevels |->
     <<[level |-> "Agent Ready", min |-> 80],
       [level |-> "Partially Ready", min |-> 60],
       [level |-> "Needs Work", min |-> 40],
       [level |-> "Not Ready", min |-> 0]>>]

\* The value of `result` while no call has returned.
NoResult == [overallScore |-> -1]

\* The object the call returns (the return statement).
AgentReadinessScore(overallScore, dimensions, stats, recommendations) ==
  [overallScore |-> overallScore,
   grade |-> scoreToGrade(overallScore),
   readinessLevel |-> scoreToReadinessLevel(overallScore),
   summary |-> generateSummary(overallScore, scoreToGrade(overallScore),
                               scoreToReadinessLevel(overallScore), stats),
   dimensions |-> dimensions,
   stats |-> stats,
   recommendations |-> recommendations,
   appearCTA |-> generateAppearCTA(overallScore, recommendations)]

\* The weighted overall score and everything derived from the six dimensions.
ScoreDimensions(dimensions, stats, lastIdx) ==
  [outcome |-> "returned",
   result |-> AgentReadinessScore(OverallScore(dimensions), dimensions, stats,
                                  generateRecommendations(dimensions)),
   lastIndex |-> lastIdx,
   called |-> {"gatherStats", "analyzeFoundationalCompliance",
               "analyzeSemanticRichness", "analyzeAgentUsability",
               "analyzeAIDiscoverability", "analyzeSecurity",
               "analyzeErrorRecoverability", "generateRecommendations",
               "generateAppearCTA", "generateSummary"}]

\* The object literal `dimensions` from aiDiscoverability on: analyzeSecurity
\* may throw, and then analyzeErrorRecoverability is not entered.
AnalyzeFromDiscoverability(spec, stats, fc, sr, au) ==
  IF analyzeSecurityThrows(spec)
    THEN [outcome |-> "threw", result |-> NoResult, lastIndex |-> au.lastIndex,
          called |-> {"gatherStats", "analyzeFoundationalCompliance",
                      "analyzeSemanticRichness", "analyzeAgentUsability",
                      "analyzeAIDiscoverability", "analyzeSecurity"}]
  ELSE ScoreDimensions(
         [foundationalCompliance |-> fc.dimension,
          semanticRichness |-> sr.dimension,
          agentUsability |-> au.dimension,
          aiDiscoverability |-> analyzeAIDiscoverability(spec, stats),
          security |-> analyzeSecurity(spec, stats),
          errorRecoverability |-> analyzeErrorRecoverability(spec, stats)],
         stats, au.lastIndex)

\* ... from agentUsability on: analyzeAgentUsability may throw.
AnalyzeFromUsability(spec, stats, fc, sr) ==
  IF analyzeAgentUsabilityThrows(spec)
    THEN [outcome |-> "threw", result |-> NoResult, lastIndex |-> sr.lastIndex,
          called |-> {"gatherStats", "analyzeFoundationalCompliance",
                      "analyzeSemanticRichness", "analyzeAgentUsability"}]
  ELSE AnalyzeFromDiscoverability(spec, stats, fc, sr,
                                  analyzeAgentUsability(spec, stats, sr.lastIndex))

\* ... from semanticRichness on.
AnalyzeFromRichness(spec, stats, fc) ==
  AnalyzeFromUsability(spec, stats, fc,
                       analyzeSemanticRichness(spec, stats, fc.lastIndex))

\* ... the whole literal, in evaluation order.
AnalyzeDimensions(validationResults, spec, stats, lastIdx) ==
  AnalyzeFromRichness(spec, stats,
                      analyzeFoundationalCompliance(validationResults, spec, lastIdx))

\* One call: what it returns or that it throws, the lastIndex it leaves in the
\* module's patterns, and the functions it entered.
calculateAgentReadinessScore(validationResults, specContent, lastIdx) ==
  IF ParseFails(specContent)
    THEN [outcome |-> "returned",
          result |-> createErrorScore("Failed to parse OpenAPI specification."),
          lastIndex |-> lastIdx,
          called |-> {"createErrorScore"}]
  ELSE IF gatherStatsThrows(specContent)
    THEN [outcome |-> "threw", result |-> NoResult, lastIndex |-> lastIdx,
          called |-> {"gatherStats"}]
  ELSE AnalyzeDimensions(validationResults, specContent, gatherStats(specContent),
                         lastIdx)

\* The keys of AgentReadinessScore.dimensions.
DimensionKeys ==
  {"foundationalCompliance", "semanticRichness", "agentUsability",
   "aiDiscoverability", "security", "errorRecoverability"}

\* The six analyzers.
Analyzers ==
  {"analyzeFoundationalCompliance", "analyzeSemanticRichness", "analyzeAgentUsability",
   "analyzeAIDiscoverability", "analyzeSecurity", "analyzeErrorRecoverability"}

\* ------------------------------------------------------------------ inputs
\* Entries of the kind the validate route emits.
ValidationResult(source, code, message, severity) ==
  [source |-> source, code |-> code, message |-> message, severity |-> severity,
   category |-> "", path |-> <<>>]

SwaggerError ==
  ValidationResult("SwaggerParser", "SWAGGER_VALIDATION_ERROR",
                   "Swagger Parser validation failed.", "error")
RefError ==
  ValidationResult("Spectral", "invalid-ref",
                   "'#/components/schemas/User' does not exist", "error")
TagsWarning ==
  ValidationResult("Spectral", "operation-tags",
                   "Operation must have non-empty tags array.", "warning")
ZodSuccess ==
  ValidationResult("OAS Zod Validator", "ZOD_VALIDATION_SUCCESS",
    "No schema validation issues found. The specification is valid according to OAS Zod Validator.",
    "info")

ValidationResultInputs == {SwaggerError, RefError, TagsWarning, ZodSuccess}

Parameter(name, descriptionLength) ==
  [hasName |-> TRUE, name |-> name, descriptionLength |-> descriptionLength]
RefParameter == [hasName |-> FALSE, name |-> "", descriptionLength |-> 0]

Response(code, hasExample) ==
  [code |-> code, hasJsonSchema |-> FALSE, properties |-> <<>>, hasExample |-> hasExample]
SchemaResponse(code, properties) ==
  [code |-> code, hasJsonSchema |-> TRUE, properties |-> properties, hasExample |-> FALSE]

\* operationId 'listUsers', a 30-character description with 'Retrieves' and
\* 'user', a described 'limit' parameter, a 200 response with an example.
ListUsersOperation ==
  [NoOperation EXCEPT
     !.present = TRUE,
     !.operationId = [present |-> TRUE, matchEnd |-> 5],
     !.description = [length |-> 30, verbEnd |-> 9, nounEnd |-> 20],
     !.hasParameters = TRUE, !.parameters = <<Parameter("limit", 25)>>,
     !.hasResponses = TRUE, !.responses = <<Response("200", TRUE)>>]

\* A well-formed operationId, a 24-character description without verb or noun
\* of the lists, and a 404 response without content.
PlainOperation ==
  [NoOperation EXCEPT
     !.present = TRUE,
     !.operationId = [present |-> TRUE, matchEnd |-> 7],
     !.description = [length |-> 24, verbEnd |-> 0, nounEnd |-> 0],
     !.hasResponses = TRUE, !.responses = <<Response("404", FALSE)>>]

\* Everything an analyzer rewards, with two error responses that carry a schema.
RichOperation ==
  [NoOperation EXCEPT
     !.present = TRUE,
     !.operationId = [present |-> TRUE, matchEnd |-> 7],
     !.description = [length |-> 40, verbEnd |-> 7, nounEnd |-> 30],
     !.summaryLength = 12,
     !.hasParameters = TRUE, !.parameters = <<Parameter("Limit", 12)>>,
     !.hasResponses = TRUE,
     !.responses = <<Response("200", TRUE),
                     SchemaResponse("400", <<"Code", "message">>),
                     SchemaResponse("429", <<"code", "Retry_After">>)>>,
     !.tags = 1, !.security = 1, !.xIdempotent = TRUE]

\* An operation object with nothing in it.
BareOperation == [NoOperation EXCEPT !.present = TRUE]

\* A badly named operationId, a short description, an undescribed $ref
\* parameter, a '4XX' range response.
RefParameterOperation ==
  [NoOperation EXCEPT
     !.present = TRUE,
     !.operationId = [present |-> TRUE, matchEnd |-> 0],
     !.description = [length |-> 12, verbEnd |-> 3, nounEnd |-> 0],
     !.hasParameters = TRUE, !.parameters = <<RefParameter>>,
     !.hasResponses = TRUE, !.responses = <<Response("4XX", FALSE)>>]

\* No operationId and no description; a 500 response without content.
AnonymousOperation ==
  [NoOperation EXCEPT
     !.present = TRUE,
     !.hasResponses = TRUE, !.responses = <<Response("500", FALSE)>>]

OperationInputs ==
  {ListUsersOperation, PlainOperation, RichOperation, BareOperation, RefParameterOperation,
   AnonymousOperation}
PathKeyInputs == {"/users", "/item"}
MethodInputs == {"get", "post"}

Server(url, hasDescription) == [hasUrl |-> TRUE, url |-> url, hasDescription |-> hasDescription]
ServerWithoutUrl == [hasUrl |-> FALSE, url |-> "", hasDescription |-> TRUE]

\* Every section present and complete; paths is an empty map.
DocumentedDocument ==
  [EmptyDocument EXCEPT
     !.openapi = [present |-> TRUE, matchEnd |-> 5],
     !.info = [descriptionLength |-> 60, contact |-> TRUE,
               contactFields |-> {"name", "email"},
               license |-> TRUE, licenseName |-> TRUE, termsOfService |-> TRUE],
     !.externalDocsUrl = TRUE,
     !.hasServers = TRUE, !.servers = <<Server("https://api.example.com", TRUE)>>,
     !.hasTags = TRUE, !.tags = <<[descriptionLength |-> 12]>>,
     !.hasPaths = TRUE,
     !.schemas = <<[descriptionLength |-> 20, hasExample |-> TRUE]>>,
     !.securitySchemes = <<[type |-> "oauth2", scheme |-> ""],
                           [type |-> "apiKey", scheme |-> ""],
                           [type |-> "http", scheme |-> "bearer"]>>,
     !.security = 1]

\* servers: [] and half-documented components.
HalfDocumentedDocument ==
  [EmptyDocument EXCEPT
     !.openapi = [present |-> TRUE, matchEnd |-> 5],
     !.info = [descriptionLength |-> 30, contact |-> TRUE, contactFields |-> {},
               license |-> FALSE, licenseName |-> FALSE, termsOfService |-> FALSE],
     !.hasServers = TRUE,
     !.hasTags = TRUE, !.tags = <<[descriptionLength |-> 0]>>,
     !.schemas = <<[descriptionLength |-> 20, hasExample |-> FALSE],
                   [descriptionLength |-> 0, hasExample |-> TRUE]>>,
     !.securitySchemes = <<[type |-> "apiKey", scheme |-> ""],
                           [type |-> "http", scheme |-> "bearer"]>>]

\* A server entry without url (only a description), an openapi of '2.0'.
ServerWithoutUrlDocument ==
  [EmptyDocument EXCEPT
     !.openapi = [present |-> TRUE, matchEnd |-> 0],
     !.hasServers = TRUE, !.servers = <<ServerWithoutUrl>>]

\* A plain-http server ahead of a server without url.
HttpServerDocument ==
  [EmptyDocument EXCEPT
     !.hasServers = TRUE,
     !.servers = <<Server("http://api.example.com", FALSE), ServerWithoutUrl>>,
     !.securitySchemes = <<[type |-> "apiKey", scheme |-> ""]>>]

\* Only the openapi field, '3.0.3'.
\* servers: [] and nothing else.
EmptyServersDocument == [EmptyDocument EXCEPT !.hasServers = TRUE]

VersionOnlyDocument ==
  [EmptyDocument EXCEPT !.openapi = [present |-> TRUE, matchEnd |-> 5]]

\* paths with one key, and nothing under it ('/orders:' in YAML).
NullPathItemDocument ==
  [EmptyDocument EXCEPT
     !.hasPaths = TRUE,
     !.paths = <<[PathItem("/orders") EXCEPT !.isNull = TRUE]>>]

\* What yaml.load can give: it throws, or returns a scalar, null (or
\* undefined), an array, or an object.  An array has none of the fields read.
InitialDocuments ==
  {[EmptyDocument EXCEPT !.kind = k] : k \in {"unparseable", "scalar", "null", "array"}}
    \cup {EmptyDocument, DocumentedDocument, HalfDocumentedDocument,
          ServerWithoutUrlDocument, HttpServerDocument, VersionOnlyDocument,
          NullPathItemDocument, EmptyServersDocument}

\* spec with operation put at paths[key][method]; a new key is appended.
AddOperation(spec, key, method, operation) ==
  LET at == {i \in 1..Len(spec.paths) : spec.paths[i].key = key}
  IN IF at = {}
       THEN [spec EXCEPT
               !.hasPaths = TRUE,
               !.paths = Append(@, [PathItem(key) EXCEPT !.operations[method] = operation])]
       ELSE LET i == CHOOSE j \in at : TRUE
            IN [spec EXCEPT !.paths[i].operations[method] = operation]

SlotFree(spec, key, method) ==
  \A i \in 1..Len(spec.paths) :
    spec.paths[i].key = key => ~spec.paths[i].operations[method].present

\* GET /users as the one operation of a document that has only openapi: 3.0.3.
ListUsersDocument == AddOperation(VersionOnlyDocument, "/users", "get", ListUsersOperation)

\* ------------------------------------------------------ calculateApiScore
\* The scorer the worker imports.  `results` is the array it is handed:
\* defined is FALSE for undefined, and NullEntry is an element that is null.
NullEntry == ValidationResult("null", "", "", "")

ParsingError ==
  ValidationResult("ScoringEngine", "parsing-error",
                   "Specification content is not valid YAML or JSON.", "error")

ruleMappings(code) ==
  CASE code = "oas3-schema" -> [category |-> "structure", cap |-> 1]
    [] code = "parser-error" -> [category |-> "structure", cap |-> 1]
    [] code = "invalid-ref" -> [category |-> "structure", cap |-> 3]
    [] code = "security-defined-but-not-used" -> [category |-> "security", cap |-> 1]
    [] code = "no-unsafe-pattern" -> [category |-> "security", cap |-> 3]
    [] code = "operation-description" -> [category |-> "documentation", cap |-> 5]
    [] code = "info-contact" -> [category |-> "documentation", cap |-> 1]
    [] code = "info-license" -> [category |-> "documentation", cap |-> 1]
    [] code = "tag-description" -> [category |-> "documentation", cap |-> 3]
    [] code = "operation-tag-defined" -> [category |-> "style", cap |-> 1]
    [] code = "path-kebab-case" -> [category |-> "style", cap |-> 3]
    [] code = "operation-operationId-valid" -> [category |-> "consistency", cap |-> 3]
    [] OTHER -> [category |-> "style", cap |-> 5]

\* severityDeductions[result.severity] || 0
severityDeductions(severity) ==
  CASE severity = "error" -> 20
    [] severity = "warning" -> 5
    [] severity = "info" -> 1
    [] OTHER -> 0

\* categoryWeights, in percent, in the order for...in visits them.
categoryWeights ==
  <<<<"structure", 40>>, <<"security", 25>>, <<"documentation", 15>>,
    <<"consistency", 10>>, <<"style", 10>>>>

\* The loop over results: entry i is deducted while its code has been seen at
\* most cap times.
RECURSIVE DeductResults(_, _, _)
DeductResults(entries, i, scores) ==
  IF i > Len(entries) THEN scores
  ELSE DeductResults(entries, i + 1,
         IF /\ Cardinality({j \in 1..i : entries[j].code = entries[i].code})
                 <= ruleMappings(entries[i].code).cap
            /\ severityDeductions(entries[i].severity) > 0
           THEN [scores EXCEPT ![ruleMappings(entries[i].code).category] =
                   Max(0, @ - severityDeductions(entries[i].severity))]
           ELSE scores)

\* Math.min(15, Math.round((missing / checked) * 30)); below 40 keys the
\* double rounds as the rational does.
MissingPenalty(missing, checked) ==
  CASE checked < 40 -> Min(15, MathRound(30 * missing, checked))

\* for (const method in spec.paths[path]): every key of a path item counts, the
\* shared parameters included; a null path item has none.
PathItemKeys(spec) ==
  LET ops == AllOperations(spec)
      shared == IF spec.hasPaths
                  THEN Cardinality({i \in 1..Len(spec.paths) :
                                      ~spec.paths[i].isNull /\ spec.paths[i].parameters > 0})
                  ELSE 0
      NoSummary(entry) == entry.operation.summaryLength = 0
      NoDescription(entry) == entry.operation.description.length = 0
  IN [checked |-> Len(ops) + shared,
      missingSummary |-> Count(ops, NoSummary) + shared,
      missingDescription |-> Count(ops, NoDescription) + shared]

\* if (spec): the deductions for what the document lacks, and the final
\* Math.max(0, ...).  After a failed parse spec is what yaml.load returned, if
\* it returned; a scalar is taken to be a truthy one.
PresenceDeductions(spec, keys, scores) ==
  IF spec.kind \in {"unparseable", "null"} THEN scores
  ELSE
  [scores EXCEPT
     !.documentation =
       Max(0, @ - (IF spec.info.descriptionLength = 0 THEN 5 ELSE 0)
                - (IF spec.info.contactFields = {} THEN 5 ELSE 0)
                - (IF ~spec.info.licenseName THEN 5 ELSE 0)
                - (IF ~spec.info.termsOfService THEN 3 ELSE 0)
                - (IF keys.checked > 0
                     THEN MissingPenalty(keys.missingSummary, keys.checked)
                            + MissingPenalty(keys.missingDescription, keys.checked)
                     ELSE 0)),
     !.security =
       Max(0, @ - (IF spec.securitySchemes = <<>> /\ spec.security = 0 THEN 40
                   ELSE IF spec.security = 0 THEN 15
                   ELSE IF spec.securitySchemes = <<>> THEN 25
                   ELSE 0))]

\* Math.round(overallScore / totalWeight): totalWeight, the double sum of the
\* five weights, is exactly 1.
ApiScore(dimensionalScores, entries) ==
  [outcome |-> "returned",
   overallScore |->
     RoundWeightedSum([i \in 1..Len(categoryWeights) |->
                         <<dimensionalScores[categoryWeights[i][1]], categoryWeights[i][2]>>]),
   dimensionalScores |-> dimensionalScores,
   results |-> [defined |-> TRUE, entries |-> entries]]

\* The array after the catch block: results.push on a failed parse.
ResultsAfterParse(results, specContent) ==
  IF results.defined /\ ParseFails(specContent)
    THEN [results EXCEPT !.entries = Append(@, ParsingError)]
    ELSE results

\* results.push and for...of throw on undefined, result.code on null.
calculateApiScore(results, specContent) ==
  IF \/ ~results.defined
     \/ \E i \in 1..Len(results.entries) : results.entries[i] = NullEntry
    THEN [outcome |-> "threw", overallScore |-> -1,
          dimensionalScores |-> <<>>,
          results |-> ResultsAfterParse(results, specContent)]
  ELSE ApiScore(
         PresenceDeductions(specContent, PathItemKeys(specContent),
           DeductResults(ResultsAfterParse(results, specContent).entries, 1,
                         [structure |-> IF ParseFails(specContent) THEN 0 ELSE 100,
                          security |-> 100, documentation |-> 100,
                          consistency |-> 100, style |-> 100])),
         ResultsAfterParse(results, specContent).entries)

\* A caller of calculateApiScore: the results array it holds, that array as it
\* was before the first call, the specContent, and the overallScore of each
\* call so far.
Caller(results, content) ==
  [results |-> results, original |-> results, specContent |-> content, scores |-> <<>>]
NotScored == Caller(<<>>, EmptyDocument)

\* The caller after one more calculateApiScore(results, specContent).
Rescored(c, r) ==
  [c EXCEPT !.results = r.results.entries, !.scores = Append(@, r.overallScore)]

\* ------------------------------------------------------------ score worker
\* event.data: present is FALSE for a message without data.
Message(type, results, content) ==
  [present |-> TRUE, type |-> type, results |-> results, specContent |-> content]
NoData ==
  [present |-> FALSE, type |-> "", results |-> [defined |-> FALSE, entries |-> <<>>],
   specContent |-> EmptyDocument]

\* The message the handler posts for a scorer run that ended as r.
Reply(r) ==
  IF r.outcome = "returned"
    THEN <<[type |-> "score-response", overallScore |-> r.overallScore]>>
    ELSE <<[type |-> "score-error", error |-> "Unknown error"]>>

\* self.onmessage: the messages it posts, in order.
onmessageUnguarded(data) ==
  IF ~data.present THEN <<>> ELSE Reply(calculateApiScore(data.results, data.specContent))
onmessage(data) ==
  IF ~data.present \/ data.type # "score-request" THEN <<>>
  ELSE Reply(calculateApiScore(data.results, data.specContent))

\* ------------------------------------------------- Unicorn Studio loader
\* The loader module and what it acts on.  loadPromise is the index in
\* promises of the cached promise (0: null); a script is "loading", "loaded"
\* or "failed" and names the promise its handlers settle; UnicornStudio says
\* whether window.UnicornStudio is defined; returned lists the calls in order,
\* each with the promise it was handed (0: the call threw).
NoLoader ==
  [hasWindow |-> TRUE, UnicornStudio |-> FALSE, loadPromise |-> 0,
   promises |-> <<>>, scripts |-> <<>>, returned |-> <<>>]

\* loadPromise = <a new promise in the given state>; return loadPromise
Cache(l, component, state) ==
  [l EXCEPT !.promises = Append(@, state),
            !.loadPromise = Len(l.promises) + 1,
            !.returned = Append(@, [component |-> component,
                                    promise |-> Len(l.promises) + 1])]

\* The part of loadUnicornStudio after the cache test.  Without a window the
\* read of `window` throws before anything is assigned.
loadUnicornStudioUncached(l, component) ==
  IF ~l.hasWindow
    THEN [l EXCEPT !.returned = Append(@, [component |-> component, promise |-> 0])]
  ELSE IF l.UnicornStudio THEN Cache(l, component, "resolved")
  ELSE [Cache(l, component, "pending") EXCEPT
          !.scripts = Append(@, [promise |-> Len(l.promises) + 1, state |-> "loading"])]

loadUnicornStudio(l, component) ==
  IF l.loadPromise # 0
    THEN [l EXCEPT !.returned = Append(@, [component |-> component,
                                           promise |-> l.loadPromise])]
  ELSE IF ~l.hasWindow
    THEN [l EXCEPT !.returned = Append(@, [component |-> component, promise |-> 0])]
  ELSE IF l.UnicornStudio THEN Cache(l, component, "resolved")
  ELSE [Cache(l, component, "pending") EXCEPT
          !.scripts = Append(@, [promise |-> Len(l.promises) + 1, state |-> "loading"])]

\* script.onload of script i, after the script ran and did or did not define
\* window.UnicornStudio.
onload(l, i, defines) ==
  [l EXCEPT !.UnicornStudio = @ \/ defines,
            !.scripts[i].state = "loaded",
            !.promises[l.scripts[i].promise] =
              IF l.UnicornStudio \/ defines THEN "resolved" ELSE "rejected"]

\* script.onerror of script i.
onerror(l, i) ==
  [l EXCEPT !.loadPromise = 0,
            !.scripts[i].state = "failed",
            !.promises[l.scripts[i].promise] = "rejected"]

\* --------------------------------------------------------------- Home page
\* The page component's state (null is present = FALSE), its message
\* listeners in the order they were added, and the two queues between page
\* and worker.  A listener, a request and a reply carry the number of the
\* validation they belong to, and applied records which listener handled
\* which reply; the code has neither, they are kept to state properties.
Null == [present |-> FALSE, value |-> 0]
NoPage ==
  [isLoading |-> FALSE, validationResults |-> <<>>,
   specContent |-> [empty |-> TRUE, document |-> EmptyDocument],
   validationError |-> FALSE, agentReadinessScore |-> Null,
   started |-> 0, completed |-> 0,
   listeners |-> <<>>, inbox |-> <<>>, outbox |-> <<>>, applied |-> <<>>]

\* data.score, data.error: the property of that name, undefined when the
\* message has none.
Property(data, name) ==
  IF name \in DOMAIN data THEN [present |-> TRUE, value |-> data[name]] ELSE Null

handleValidationStart(p) ==
  [p EXCEPT !.isLoading = TRUE, !.validationResults = <<>>,
            !.specContent = [empty |-> TRUE, document |-> EmptyDocument],
            !.validationError = FALSE, !.agentReadinessScore = Null,
            !.started = @ + 1]

\* handleValidationComplete(results, content, error) with the worker created.
handleValidationComplete(p, results, content, error) ==
  IF ~content.empty /\ ~error
    THEN [p EXCEPT !.specContent = content, !.validationResults = results,
                   !.validationError = error, !.isLoading = FALSE,
                   !.completed = @ + 1,
                   !.listeners = Append(@, p.completed + 1),
                   !.inbox = Append(@, [id |-> p.completed + 1,
                                        data |-> Message("score-request",
                                                         [defined |-> TRUE, entries |-> results],
                                                         content.document)])]
    ELSE [p EXCEPT !.specContent = content, !.validationResults = results,
                   !.validationError = error, !.isLoading = FALSE,
                   !.completed = @ + 1,
                   !.agentReadinessScore = Null]

\* The listener validation `id` added, called with a reply.
onMessage(p, id, reply) ==
  IF reply.data.type \notin {"score-response", "score-error"} THEN p
  ELSE [p EXCEPT
          !.agentReadinessScore =
            IF reply.data.type = "score-response" /\ Property(reply.data, "score").present
              THEN Property(reply.data, "score")
            ELSE IF reply.data.type = "score-error" /\ Property(reply.data, "error").present
              THEN Null
            ELSE @,
          !.validationError =
            @ \/ (reply.data.type = "score-error" /\ Property(reply.data, "error").present),
          !.listeners = SelectSeq(@, LAMBDA l : l # id),
          !.applied = Append(@, [listener |-> id, reply |-> reply.id])]

\* The worker's 'message' event: the listeners registered when it is
\* dispatched are called in the order they were added.
RECURSIVE Dispatch(_, _, _, _)
Dispatch(p, registered, i, reply) ==
  IF i > Len(registered) THEN p
  ELSE Dispatch(onMessage(p, registered[i], reply), registered, i + 1, reply)

\* ------------------------------------------------------------------- state
VARIABLES
  specContent,        \* what yaml.load makes of the specContent argument
  validationResults,  \* the validationResults argument
  outcome,            \* "none", "returned" or "threw": how the last call ended
  result,             \* the AgentReadinessScore the last call returned
  lastIndex,          \* lastIndex of the module-level RegExp objects
  called,             \* the functions the last call entered
  rerun,              \* the last call was given the inputs of the call before it
  evaluated,          \* the dimensions analyzed so far, when taken in any order
  received,           \* event.data of the last message the worker was sent
  posted,             \* the messages the worker posted in reply to it
  loader,             \* the SDK loader module, the document's script elements and the callers
  scored,             \* a results array and specContent a caller holds, and the scores returned for them
  page                \* the Home page's state, its worker's queues and its message listeners

vars ==
  <<specContent, validationResults, outcome, result, lastIndex, called, rerun,
    evaluated, received, posted, loader, scored, page>>

Init ==
  /\ specContent \in InitialDocuments
  /\ validationResults = <<>>
  /\ outcome = "none"
  /\ result = NoResult
  /\ lastIndex = [p \in PATTERNS |-> 0]
  /\ called = {}
  /\ rerun = FALSE
  /\ evaluated = <<>>
  /\ received = NoData
  /\ posted = <<>>
  /\ loader = NoLoader
  /\ scored = NotScored
  /\ page = NoPage

\* The caller's validationResults array after a call: createErrorScore never
\* sees it, and analyzeFoundationalCompliance only calls filter on it, which
\* builds a new array.
validationResultsAfterPush(results, content) ==
  IF ParseFails(content) THEN Append(results, ParsingError) ELSE results
validationResultsAfter(results, content) == results

\* The module state after a call that ended as r.
Apply(results, content, r) ==
  /\ specContent' = content
  /\ validationResults' = validationResultsAfter(results, content)
  /\ outcome' = r.outcome
  /\ result' = r.result
  /\ lastIndex' = r.lastIndex
  /\ called' = r.called
  /\ rerun' = (outcome # "none" /\ results = validationResults /\ content = specContent)
  /\ UNCHANGED <<evaluated, received, posted, loader, scored, page>>

\* calculateAgentReadinessScore(results, content) from the current module state.
Call(results, content) ==
  Apply(results, content, calculateAgentReadinessScore(results, content, lastIndex))

\* The scorer is run on the inputs it was (or is about to be) given.
Score == Call(validationResults, specContent)

\* The inputs the model explores.
WithinBounds(results, content) ==
  /\ Len(results) <= MaxResults
  /\ Len(AllOperations(content)) <= MaxOperations
  /\ Len(results) > 0 => Len(AllOperations(content)) <= MaxOperationsWithResults

\* The scorer is run again after the validators report one more entry.
ScoreWithOneMoreResult ==
  \E r \in ValidationResultInputs :
    /\ WithinBounds(Append(validationResults, r), specContent)
    /\ Call(Append(validationResults, r), specContent)

\* The scorer is run again on the document with one more operation.
ScoreWithOneMoreOperation ==
  /\ specContent.kind = "object"
  /\ \E key \in PathKeyInputs, method \in MethodInputs, operation \in OperationInputs :
       /\ SlotFree(specContent, key, method)
       /\ WithinBounds(validationResults,
                       AddOperation(specContent, key, method, operation))
       /\ Call(validationResults, AddOperation(specContent, key, method, operation))

Next == Score \/ ScoreWithOneMoreResult \/ ScoreWithOneMoreOperation

Spec == Init /\ [][Next]_vars

\* ------------------------------------------- the analyzers in any order
\* One of the six analyzer calls, made on the module's patterns as they are.
AnalyzerResultSharedCache(k, results, spec, stats, lastIdx) ==
  CASE k = "foundationalCompliance" -> analyzeFoundationalCompliance(results, spec, lastIdx)
    [] k = "semanticRichness" -> analyzeSemanticRichness(spec, stats, lastIdx)
    [] k = "agentUsability" -> analyzeAgentUsability(spec, stats, lastIdx)
    [] k = "aiDiscoverability" ->
         [dimension |-> analyzeAIDiscoverability(spec, stats), lastIndex |-> lastIdx]
    [] k = "security" ->
         [dimension |->
            analyzeSecurity(spec,
              IF \E i \in 1..Len(evaluated) : evaluated[i].key = "agentUsability"
                THEN stats ELSE [stats EXCEPT !.operations = 0]),
          lastIndex |-> lastIdx]
    [] k = "errorRecoverability" ->
         [dimension |-> analyzeErrorRecoverability(spec, stats), lastIndex |-> lastIdx]
AnalyzerResult(k, results, spec, stats, lastIdx) ==
  CASE k = "foundationalCompliance" -> analyzeFoundationalCompliance(results, spec, lastIdx)
    [] k = "semanticRichness" -> analyzeSemanticRichness(spec, stats, lastIdx)
    [] k = "agentUsability" -> analyzeAgentUsability(spec, stats, lastIdx)
    [] k = "aiDiscoverability" ->
         [dimension |-> analyzeAIDiscoverability(spec, stats), lastIndex |-> lastIdx]
    [] k = "security" ->
         [dimension |-> analyzeSecurity(spec, stats), lastIndex |-> lastIdx]
    [] k = "errorRecoverability" ->
         [dimension |-> analyzeErrorRecoverability(spec, stats), lastIndex |-> lastIdx]

AnalyzerThrows(k, spec) ==
  \/ k = "agentUsability" /\ analyzeAgentUsabilityThrows(spec)
  \/ k = "security" /\ analyzeSecurityThrows(spec)

\* The arguments of a call whose analyzers are taken in any order, after
\* gatherStats.
AnyOrderInit ==
  /\ specContent \in
       {ListUsersDocument,
        AddOperation(DocumentedDocument, "/users", "get", RichOperation),
        AddOperation(ListUsersDocument, "/item", "post", PlainOperation),
        ServerWithoutUrlDocument,
        AddOperation(EmptyDocument, "/users", "get", RefParameterOperation)}
  /\ validationResults \in {<<>>, <<RefError>>}
  /\ outcome = "none"
  /\ result = NoResult
  /\ lastIndex = [p \in PATTERNS |-> 0]
  /\ called = {"gatherStats"}
  /\ rerun = FALSE
  /\ evaluated = <<>>
  /\ received = NoData
  /\ posted = <<>>
  /\ loader = NoLoader
  /\ scored = NotScored
  /\ page = NoPage

\* Analyzer k runs next and throws.
EvaluateThrows(k) ==
  /\ outcome = "none"
  /\ \A i \in 1..Len(evaluated) : evaluated[i].key # k
  /\ AnalyzerThrows(k, specContent)
  /\ outcome' = "threw"
  /\ UNCHANGED <<specContent, validationResults, result, lastIndex, called, rerun,
                 evaluated, received, posted, loader, scored, page>>

\* The state after analyzer k returned r.
Evaluated(k, r) ==
  /\ evaluated' = Append(evaluated, [key |-> k, dimension |-> r.dimension])
  /\ lastIndex' = r.lastIndex
  /\ UNCHANGED <<specContent, validationResults, outcome, result, called, rerun,
                 received, posted, loader, scored, page>>

\* Analyzer k runs next and returns.
Evaluate(k) ==
  /\ outcome = "none"
  /\ \A i \in 1..Len(evaluated) : evaluated[i].key # k
  /\ ~AnalyzerThrows(k, specContent)
  /\ Evaluated(k, AnalyzerResult(k, validationResults, specContent,
                                 gatherStats(specContent), lastIndex))

\* The rest of calculateAgentReadinessScore, once the six are analyzed.
Combine ==
  /\ outcome = "none"
  /\ Len(evaluated) = Cardinality(DimensionKeys)
  /\ outcome' = "returned"
  /\ result' =
       ScoreDimensions(
         [k \in DimensionKeys |->
            evaluated[CHOOSE i \in 1..Len(evaluated) : evaluated[i].key = k].dimension],
         gatherStats(specContent), lastIndex).result
  /\ UNCHANGED <<specContent, validationResults, lastIndex, called, rerun,
                 evaluated, received, posted, loader, scored, page>>

AnyOrderNext ==
  \/ \E k \in DimensionKeys : Evaluate(k)
  \/ \E k \in DimensionKeys : EvaluateThrows(k)
  \/ Combine

AnyOrderSpec == AnyOrderInit /\ [][AnyOrderNext]_vars

\* ------------------------------------------------ the worker and its inbox
\* The messages the worker is sent: of three types, with a results array
\* that is undefined, empty, or of one or two entries (a null one among them),
\* and a specContent that parses or not.
WorkerMessages ==
  {Message(type, results, content) :
     type \in {"score-request", "score-response", "ping"},
     results \in
       {[defined |-> FALSE, entries |-> <<>>]}
         \cup {[defined |-> TRUE, entries |-> e] :
                 e \in {<<>>, <<RefError, NullEntry>>}
                         \cup {<<r>> : r \in ValidationResultInputs \cup {NullEntry}}
                         \cup {<<r, r>> : r \in ValidationResultInputs}},
     content \in
       {[EmptyDocument EXCEPT !.kind = k] : k \in {"unparseable", "scalar", "null"}}
         \cup {EmptyDocument, DocumentedDocument, ListUsersDocument}}
    \cup {NoData}

WorkerInit ==
  /\ specContent = EmptyDocument
  /\ validationResults = <<>>
  /\ outcome = "none"
  /\ result = NoResult
  /\ lastIndex = [p \in PATTERNS |-> 0]
  /\ called = {}
  /\ rerun = FALSE
  /\ evaluated = <<>>
  /\ received = NoData
  /\ posted = <<>>
  /\ loader = NoLoader
  /\ scored = NotScored
  /\ page = NoPage

\* The worker is sent data and its handler runs to the end.
Receive(data) ==
  /\ received' = data
  /\ posted' = onmessage(data)
  /\ UNCHANGED <<specContent, validationResults, outcome, result, lastIndex, called,
                 rerun, evaluated, loader, scored, page>>

WorkerNext == \E data \in WorkerMessages : Receive(data)

WorkerSpec == WorkerInit /\ [][WorkerNext]_vars

\* ------------------------------------------------ the loader and its page
\* The animation components that call the loader.
Components == {"hero", "footer"}

LoaderInit ==
  /\ specContent = EmptyDocument
  /\ validationResults = <<>>
  /\ outcome = "none"
  /\ result = NoResult
  /\ lastIndex = [p \in PATTERNS |-> 0]
  /\ called = {}
  /\ rerun = FALSE
  /\ evaluated = <<>>
  /\ received = NoData
  /\ posted = <<>>
  /\ loader \in {[NoLoader EXCEPT !.hasWindow = w, !.UnicornStudio = w /\ u] :
                   w \in BOOLEAN, u \in BOOLEAN}
  /\ scored = NotScored
  /\ page = NoPage

\* A component mounts and calls loadUnicornStudio().
Load ==
  /\ Len(loader.returned) < MaxLoads
  /\ \E component \in Components : loader' = loadUnicornStudio(loader, component)
  /\ UNCHANGED <<specContent, validationResults, outcome, result, lastIndex, called,
                 rerun, evaluated, received, posted, scored, page>>

\* The browser finishes fetching and running a script and fires its load event.
ScriptLoads ==
  /\ \E i \in 1..Len(loader.scripts), defines \in BOOLEAN :
       /\ loader.scripts[i].state = "loading"
       /\ loader' = onload(loader, i, defines)
  /\ UNCHANGED <<specContent, validationResults, outcome, result, lastIndex, called,
                 rerun, evaluated, received, posted, scored, page>>

\* The browser fails to fetch a script and fires its error event.
ScriptFails ==
  /\ \E i \in 1..Len(loader.scripts) :
       /\ loader.scripts[i].state = "loading"
       /\ loader' = onerror(loader, i)
  /\ UNCHANGED <<specContent, validationResults, outcome, result, lastIndex, called,
                 rerun, evaluated, received, posted, scored, page>>

LoaderNext == Load \/ ScriptLoads \/ ScriptFails

LoaderSpec == LoaderInit /\ [][LoaderNext]_vars

\* ------------------------------------------- calculateApiScore called again
RescoreInit ==
  /\ specContent = EmptyDocument
  /\ validationResults = <<>>
  /\ outcome = "none"
  /\ result = NoResult
  /\ lastIndex = [p \in PATTERNS |-> 0]
  /\ called = {}
  /\ rerun = FALSE
  /\ evaluated = <<>>
  /\ received = NoData
  /\ posted = <<>>
  /\ loader = NoLoader
  /\ scored \in
       {Caller(results, content) :
          results \in {<<>>} \cup {<<r>> : r \in ValidationResultInputs}
                            \cup {<<r, r>> : r \in ValidationResultInputs},
          content \in
            {[EmptyDocument EXCEPT !.kind = k] : k \in {"unparseable", "scalar", "null"}}
              \cup {EmptyDocument, DocumentedDocument, ListUsersDocument}}
  /\ page = NoPage

\* The caller calls calculateApiScore again with the array and content it holds.
Rescore ==
  /\ Len(scored.scores) < MaxRescores
  /\ scored' = Rescored(scored,
                        calculateApiScore([defined |-> TRUE, entries |-> scored.results],
                                          scored.specContent))
  /\ UNCHANGED <<specContent, validationResults, outcome, result, lastIndex, called,
                 rerun, evaluated, received, posted, loader, page>>

RescoreSpec == RescoreInit /\ [][Rescore]_vars

\* ------------------------------------------------------ long issue lists
\* An issue list of e validation errors, w lint warnings, r unresolved
\* references and s validator success entries, as the validate route emits them.
Issues(e, w, r, s) ==
  [i \in 1..e |-> SwaggerError] \o [i \in 1..w |-> TagsWarning]
    \o [i \in 1..r |-> RefError] \o [i \in 1..s |-> ZodSuccess]

\* The arguments of a call with a long issue list.
ComplianceInit ==
  /\ specContent \in {VersionOnlyDocument, ListUsersDocument}
  /\ validationResults \in
       {Issues(e, w, r, s) : e \in 0..MaxErrors, w \in 0..MaxWarnings,
                             r \in 0..MaxRefIssues, s \in {0, 1, 100}}
  /\ outcome = "none"
  /\ result = NoResult
  /\ lastIndex = [p \in PATTERNS |-> 0]
  /\ called = {}
  /\ rerun = FALSE
  /\ evaluated = <<>>
  /\ received = NoData
  /\ posted = <<>>
  /\ loader = NoLoader
  /\ scored = NotScored
  /\ page = NoPage

ComplianceSpec == ComplianceInit /\ [][Score]_vars

\* ------------------------------------------------- the page and its worker
\* The user drops a file: handleValidationStart().
ValidationStarts ==
  /\ page.started < MaxValidations
  /\ page.started = page.completed
  /\ page' = handleValidationStart(page)
  /\ UNCHANGED <<specContent, validationResults, outcome, result, lastIndex, called,
                 rerun, evaluated, received, posted, loader, scored>>

\* The validation ends: handleValidationComplete with the route's results and
\* the content, or with an error and with or without content.
ValidationCompletes ==
  /\ page.completed < page.started
  /\ \E results \in {<<>>, <<RefError>>, <<TagsWarning, ZodSuccess>>},
       document \in {ListUsersDocument, DocumentedDocument,
                     [EmptyDocument EXCEPT !.kind = "unparseable"]},
       empty \in BOOLEAN, error \in BOOLEAN :
       /\ empty => (error /\ results = <<>> /\ document = ListUsersDocument)
       /\ error => results = <<>>
       /\ page' = handleValidationComplete(
                    page, results, [empty |-> empty, document |-> document], error)
  /\ UNCHANGED <<specContent, validationResults, outcome, result, lastIndex, called,
                 rerun, evaluated, received, posted, loader, scored>>

\* The worker takes the next request and its handler runs to the end.
WorkerRuns ==
  /\ page.inbox # <<>>
  /\ received' = Head(page.inbox).data
  /\ posted' = onmessage(Head(page.inbox).data)
  /\ page' = [page EXCEPT
                !.inbox = Tail(@),
                !.outbox = @ \o [i \in 1..Len(posted') |->
                                   [id |-> Head(page.inbox).id, data |-> posted'[i]]]]
  /\ UNCHANGED <<specContent, validationResults, outcome, result, lastIndex, called,
                 rerun, evaluated, loader, scored>>

\* The next reply reaches the page and its 'message' event is dispatched.
ReplyArrives ==
  /\ page.outbox # <<>>
  /\ page' = Dispatch([page EXCEPT !.outbox = Tail(@)], page.listeners, 1,
                      Head(page.outbox))
  /\ UNCHANGED <<specContent, validationResults, outcome, result, lastIndex, called,
                 rerun, evaluated, received, posted, loader, scored>>

PageNext == ValidationStarts \/ ValidationCompletes \/ WorkerRuns \/ ReplyArrives

PageInit ==
  /\ specContent = EmptyDocument
  /\ validationResults = <<>>
  /\ outcome = "none"
  /\ result = NoResult
  /\ lastIndex = [p \in PATTERNS |-> 0]
  /\ called = {}
  /\ rerun = FALSE
  /\ evaluated = <<>>
  /\ received = NoData
  /\ posted = <<>>
  /\ loader = NoLoader
  /\ scored = NotScored
  /\ page = NoPage

PageSpec == PageInit /\ [][PageNext]_vars

\* ------------------------------------------------------------------ claims
\* C1: whenever a document that parses to an object has been scored, with any
\* issue list, overallScore and each of the six dimension scores lie in 0..100.
C1_ScoresWithinRange ==
  (specContent.kind = "object" /\ outcome = "returned") =>
    /\ result.overallScore \in 0..100
    /\ \A k \in DimensionKeys : result.dimensions[k].score \in 0..100

\* A document whose one operation has two error responses, both with a JSON
\* schema, has been scored, and Error Recoverability is above 100.
C1_ErrorRecoverabilityAbove100 ==
  /\ specContent.kind = "object"
  /\ outcome = "returned"
  /\ Len(AllOperations(specContent)) = 1
  /\ Len(ErrorResponsesOf(AllOperations(specContent), 1)) = 2
  /\ result.dimensions.errorRecoverability.score > 100

\* C2: on the path that is not the parse failure, overallScore is the rounding
\* of 0.25 * foundationalCompliance + 0.20 * semanticRichness + 0.20 *
\* agentUsability + 0.15 * aiDiscoverability + 0.10 * security + 0.10 *
\* errorRecoverability over the scores reported in result.dimensions.
C2_OverallScoreIsWeightedSum ==
  (outcome = "returned" /\ "createErrorScore" \notin called) =>
    result.overallScore =
      RoundWeightedSum(<<<<result.dimensions.foundationalCompliance.score, 25>>,
                         <<result.dimensions.semanticRichness.score, 20>>,
                         <<result.dimensions.agentUsability.score, 20>>,
                         <<result.dimensions.aiDiscoverability.score, 15>>,
                         <<result.dimensions.security.score, 10>>,
                         <<result.dimensions.errorRecoverability.score, 10>>>>)

\* A document has been scored whose dimensions differ, so that the weights
\* matter.
C2_ScoredWithUnequalDimensions ==
  /\ outcome = "returned"
  /\ "createErrorScore" \notin called
  /\ result.dimensions.foundationalCompliance.score
       > result.dimensions.aiDiscoverability.score
  /\ result.dimensions.aiDiscoverability.score > result.dimensions.security.score
  /\ result.overallScore > 0

\* C3: when the text cannot be parsed the call returns overallScore 0, grade F,
\* 'Not Ready', six dimensions at score 0 and grade F with exactly one signal,
\* of type negative, and exactly one recommendation, of priority critical; no
\* analyzer runs.
C3_ParseFailureResult ==
  (specContent.kind = "unparseable" /\ outcome # "none") =>
    /\ outcome = "returned"
    /\ result.overallScore = 0
    /\ result.grade = "F"
    /\ result.readinessLevel = "Not Ready"
    /\ \A k \in DimensionKeys :
         /\ result.dimensions[k].score = 0
         /\ result.dimensions[k].grade = "F"
         /\ Len(result.dimensions[k].signals) = 1
         /\ result.dimensions[k].signals[1].type = "negative"
    /\ Len(result.recommendations) = 1
    /\ result.recommendations[1].priority = "critical"
    /\ called \cap Analyzers = {}

\* A text that cannot be parsed has been scored, with issues reported for it.
C3_UnparseableScored ==
  /\ specContent.kind = "unparseable"
  /\ outcome = "returned"
  /\ Len(validationResults) > 0

\* C4: a text that parses to a scalar, to null or to a top-level list gets the
\* parse-failure result (overallScore 0, one critical recommendation) and is
\* not passed to the analyzers.
C4_NonObjectIsParseFailure ==
  (specContent.kind \in {"scalar", "null", "array"} /\ outcome # "none") =>
    /\ outcome = "returned"
    /\ result.overallScore = 0
    /\ Len(result.recommendations) = 1
    /\ result.recommendations[1].priority = "critical"
    /\ called \cap Analyzers = {}

\* A top-level list has been passed to all six analyzers and scored above 0.
C4_ArrayIsAnalyzed ==
  /\ specContent.kind = "array"
  /\ outcome = "returned"
  /\ Analyzers \subseteq called
  /\ result.overallScore > 0

\* C5: the call returns a scored result for every object document, however
\* sparse (a server entry without url, a parameter entry without name on a
\* list GET, an operation without responses ...).
C5_SparseDocumentsAreScored ==
  (specContent.kind = "object" /\ outcome # "none") => outcome = "returned"

\* The call has thrown out of analyzeSecurity on a server entry without url.
C5_ThrowsOnServerWithoutUrl ==
  /\ specContent.kind = "object"
  /\ \E i \in 1..Len(specContent.servers) : ~specContent.servers[i].hasUrl
  /\ outcome = "threw"
  /\ "analyzeSecurity" \in called
  /\ "analyzeErrorRecoverability" \notin called

\* C6: scoring the same (specContent, validationResults) pair again gives the
\* same result in every field as the run before, and every run gives what a
\* run in a freshly loaded module gives, whatever was scored in between.
C6_Deterministic ==
  /\ [][rerun' => (outcome' = outcome /\ result' = result)]_vars
  /\ [](outcome # "none" =>
          /\ outcome = calculateAgentReadinessScore(validationResults, specContent,
                                                    [p \in PATTERNS |-> 0]).outcome
          /\ result = calculateAgentReadinessScore(validationResults, specContent,
                                                   [p \in PATTERNS |-> 0]).result)

\* A document with an operation whose operationId and description the module's
\* patterns match has been scored twice in a row, after other runs.
C6_ScoredTwice ==
  /\ rerun
  /\ outcome = "returned"
  /\ Len(validationResults) > 0
  /\ \E i \in 1..Len(AllOperations(specContent)) :
       /\ AllOperations(specContent)[i].operation.operationId.matchEnd > 0
       /\ AllOperations(specContent)[i].operation.description.verbEnd > 0
  /\ result.dimensions.agentUsability.details.operationIdQuality = 100

\* C7: every sub-factor in every details map of a scored document lies in
\* [0,100] (structuralIntegrity is kept in ten-thousandths); in particular
\* structuredErrors, errorCodeSupport and retrySupport.
C7_DetailsWithinRange ==
  (outcome = "returned" /\ "createErrorScore" \notin called) =>
    /\ \A k \in DimensionKeys \ {"foundationalCompliance"} :
         \A f \in DOMAIN result.dimensions[k].details :
           result.dimensions[k].details[f] \in 0..100
    /\ result.dimensions.foundationalCompliance.details.specificationValidity \in 0..100
    /\ result.dimensions.foundationalCompliance.details.lintResults \in 0..100
    /\ result.dimensions.foundationalCompliance.details.resolutionCompleteness \in 0..100
    /\ result.dimensions.foundationalCompliance.details.structuralIntegrity
         \in 0..1000000

\* One operation declares error responses, two of them with a schema, and
\* structuredErrors is reported as 200.
C7_StructuredErrorsIs200 ==
  /\ outcome = "returned"
  /\ Count(AllOperations(specContent), HasErrorResponses) = 1
  /\ Count(ErrorResponsesOf(AllOperations(specContent), 1), HasSchema) = 2
  /\ result.dimensions.errorRecoverability.details.structuredErrors = 200

\* C8: scoring a document again with one more issue of severity 'error'
\* appended to the list never gives a higher Foundational Compliance score.
C8_ErrorNeverRaisesCompliance ==
  [][\A r \in ValidationResultInputs :
       (/\ r.severity = "error"
        /\ validationResults' = Append(validationResults, r)
        /\ specContent' = specContent
        /\ outcome = "returned"
        /\ outcome' = "returned")
       => result'.dimensions.foundationalCompliance.score
            <= result.dimensions.foundationalCompliance.score]_vars

\* An object document has been scored with an issue of severity 'error' at the
\* end of a list of two, and Foundational Compliance is below 100.
C8_ScoredWithAppendedError ==
  /\ specContent.kind = "object"
  /\ outcome = "returned"
  /\ Len(validationResults) = 2
  /\ validationResults[2].severity = "error"
  /\ result.dimensions.foundationalCompliance.score < 100

\* An operation with a well-formed operationId, a description of at least 20
\* characters and a response with a status from 400 to 499.
WellFormedOperation(operation) ==
  /\ operation.present
  /\ operation.operationId.present
  /\ operation.operationId.matchEnd > 0
  /\ operation.description.length >= 20
  /\ operation.hasResponses
  /\ \E i \in 1..Len(operation.responses) :
       parseInt(operation.responses[i].code) \in 400..499

\* The step scores the document with one more well-formed operation, the issue
\* list unchanged, and both runs return.
AddsWellFormedOperation ==
  /\ outcome = "returned"
  /\ outcome' = "returned"
  /\ validationResults' = validationResults
  /\ \E key \in PathKeyInputs, method \in MethodInputs, operation \in OperationInputs :
       /\ WellFormedOperation(operation)
       /\ SlotFree(specContent, key, method)
       /\ specContent' = AddOperation(specContent, key, method, operation)

\* C9 as stated: adding one more well-formed operation never lowers the Agent
\* Usability, the Semantic Richness or the Error Recoverability score.
C9_OperationNeverLowersScores ==
  [][AddsWellFormedOperation =>
       /\ result'.dimensions.agentUsability.score
            >= result.dimensions.agentUsability.score
       /\ result'.dimensions.semanticRichness.score
            >= result.dimensions.semanticRichness.score
       /\ result'.dimensions.errorRecoverability.score
            >= result.dimensions.errorRecoverability.score]_vars

\* C9, amended: adding one more well-formed operation never lowers the
\* sub-factors the three properties of the operation feed: operationIdCoverage,
\* operationIdQuality and errorResponseCoverage (Agent Usability),
\* descriptionCoverage (Semantic Richness) and errorCoverage (Error
\* Recoverability).
C9_OperationNeverLowersItsSubFactors ==
  [][AddsWellFormedOperation =>
       /\ result'.dimensions.agentUsability.details.operationIdCoverage
            >= result.dimensions.agentUsability.details.operationIdCoverage
       /\ result'.dimensions.agentUsability.details.operationIdQuality
            >= result.dimensions.agentUsability.details.operationIdQuality
       /\ result'.dimensions.agentUsability.details.errorResponseCoverage
            >= result.dimensions.agentUsability.details.errorResponseCoverage
       /\ result'.dimensions.semanticRichness.details.descriptionCoverage
            >= result.dimensions.semanticRichness.details.descriptionCoverage
       /\ result'.dimensions.errorRecoverability.details.errorCoverage
            >= result.dimensions.errorRecoverability.details.errorCoverage]_vars

\* A document with two operations, the second one well-formed, has been
\* scored, and not every operation has an operationId or a description.
C9_ScoredWithWellFormedOperation ==
  /\ outcome = "returned"
  /\ Len(AllOperations(specContent)) = 2
  /\ \E i \in 1..2 : WellFormedOperation(AllOperations(specContent)[i].operation)
  /\ result.dimensions.agentUsability.details.operationIdCoverage = 50
  /\ result.dimensions.semanticRichness.details.descriptionCoverage = 50
  /\ result.dimensions.errorRecoverability.details.errorCoverage = 50

\* The score below which generateRecommendations reports a dimension.
TriggerThreshold ==
  [foundationalCompliance |-> 80, semanticRichness |-> 70, agentUsability |-> 70,
   aiDiscoverability |-> 60, security |-> 80, errorRecoverability |-> 60]

\* The label a recommendation names its dimension by.
DimensionLabel ==
  [foundationalCompliance |-> "Foundational Compliance",
   semanticRichness |-> "Semantic Richness",
   agentUsability |-> "Agent Usability",
   aiDiscoverability |-> "AI Discoverability",
   security |-> "Security",
   errorRecoverability |-> "Error Recoverability"]

\* C10: the recommendations of a scored document hold exactly one entry for
\* each dimension whose score is below its threshold and none for the others;
\* so at most six, and none when every score is 100.
C10_OneRecommendationPerWeakDimension ==
  "generateRecommendations" \in called =>
    /\ \A k \in DimensionKeys :
         Cardinality({i \in 1..Len(result.recommendations) :
                        result.recommendations[i].dimension = DimensionLabel[k]})
           = IF result.dimensions[k].score < TriggerThreshold[k] THEN 1 ELSE 0
    /\ Len(result.recommendations) <= 6
    /\ (\A k \in DimensionKeys : result.dimensions[k].score = 100)
         => result.recommendations = <<>>

\* A document has been scored with Security below 80 and Foundational
\* Compliance at 80 or more: some dimensions are reported, others are not.
C10_SomeDimensionsWeak ==
  /\ "generateRecommendations" \in called
  /\ result.dimensions.security.score < 80
  /\ result.dimensions.foundationalCompliance.score >= 80
  /\ Len(result.recommendations) \in 1..5

\* priorityOrder, the rank generateRecommendations sorts by.
priorityOrder == [critical |-> 0, high |-> 1, medium |-> 2, low |-> 3]

\* The labels in the order generateRecommendations visits the dimensions.
DeclarationOrder ==
  <<"Foundational Compliance", "Semantic Richness", "Agent Usability",
    "AI Discoverability", "Security", "Error Recoverability">>

DeclarationIndex(label) == CHOOSE i \in 1..Len(DeclarationOrder) : DeclarationOrder[i] = label

\* C11: in every returned recommendation list no entry is followed by one of
\* higher priority (critical, high, medium, low), and entries of equal
\* priority appear in dimension declaration order.
C11_RecommendationsOrdered ==
  outcome = "returned" =>
    \A i, j \in 1..Len(result.recommendations) :
      i < j =>
        \/ priorityOrder[result.recommendations[i].priority]
             < priorityOrder[result.recommendations[j].priority]
        \/ /\ result.recommendations[i].priority = result.recommendations[j].priority
           /\ DeclarationIndex(result.recommendations[i].dimension)
                < DeclarationIndex(result.recommendations[j].dimension)

\* A list has been returned in which sorting moved an entry ahead of one of an
\* earlier dimension, and two entries share a priority.
C11_SortedListWithTies ==
  /\ outcome = "returned"
  /\ "generateRecommendations" \in called
  /\ \E i, j \in 1..Len(result.recommendations) :
       /\ i < j
       /\ DeclarationIndex(result.recommendations[i].dimension)
            > DeclarationIndex(result.recommendations[j].dimension)
  /\ \E i, j \in 1..Len(result.recommendations) :
       i < j /\ result.recommendations[i].priority = result.recommendations[j].priority

\* The priorities of the entries a result holds for dimension k (none or one).
PrioritiesFor(r, k) ==
  {r.recommendations[i].priority :
     i \in {j \in 1..Len(r.recommendations) :
              r.recommendations[j].dimension = DimensionLabel[k]}}

\* Documents with a single operation, GET /item.
ReferenceDocuments ==
  {AddOperation(EmptyDocument, "/item", "get", operation) : operation \in OperationInputs}

\* C12: the priority of a dimension's recommendation is derived only from the
\* dimension's score: whenever the scored document and a one-operation
\* document scored with no issues have the same score in a dimension, they get
\* the same priority for it.
C12_PriorityFollowsScore ==
  "generateRecommendations" \in called =>
    \A d \in ReferenceDocuments :
      LET other == calculateAgentReadinessScore(<<>>, d, [p \in PATTERNS |-> 0])
      IN other.outcome = "returned" =>
           \A k \in DimensionKeys :
             result.dimensions[k].score = other.result.dimensions[k].score =>
               PrioritiesFor(result, k) = PrioritiesFor(other.result, k)

\* A document has been scored with the Agent Usability score of the document
\* whose one operation has no operationId, and its recommendation is 'medium'
\* where that document's is 'high'.
C12_SameScoreOtherPriority ==
  /\ "generateRecommendations" \in called
  /\ LET other == calculateAgentReadinessScore(
                    <<>>, AddOperation(EmptyDocument, "/item", "get", AnonymousOperation),
                    [p \in PATTERNS |-> 0]).result
     IN /\ result.dimensions.agentUsability.score = other.dimensions.agentUsability.score
        /\ PrioritiesFor(result, "agentUsability") = {"medium"}
        /\ PrioritiesFor(other, "agentUsability") = {"high"}

\* The grade whose published minimum is the greatest one not above the score.
GradeAt(score) ==
  CHOOSE g \in DOMAIN METHODOLOGY.gradeThresholds :
    /\ METHODOLOGY.gradeThresholds[g] <= score
    /\ \A h \in DOMAIN METHODOLOGY.gradeThresholds :
         METHODOLOGY.gradeThresholds[h] <= score
           => METHODOLOGY.gradeThresholds[h] <= METHODOLOGY.gradeThresholds[g]

\* The <<score, grade>> pairs a result reports: the overall one and the six
\* dimensions'.
ReportedGrades(r) ==
  {<<r.overallScore, r.grade>>}
    \cup {<<r.dimensions[k].score, r.dimensions[k].grade>> : k \in DimensionKeys}

GradeRank == [A |-> 4, B |-> 3, C |-> 2, D |-> 1, F |-> 0]

LevelAt(score) ==
  METHODOLOGY.readinessLevels[
    CHOOSE i \in 1..Len(METHODOLOGY.readinessLevels) :
      /\ METHODOLOGY.readinessLevels[i].min <= score
      /\ \A j \in 1..(i - 1) : METHODOLOGY.readinessLevels[j].min > score].level

C15_WeightClosure ==
  /\ SumSeq([i \in 1..Len(METHODOLOGY.dimensions) |-> METHODOLOGY.dimensions[i].weight], 1)
       = 100
  /\ WeightedSum([i \in 1..Len(METHODOLOGY.dimensions) |->
                    <<1, METHODOLOGY.dimensions[i].weight>>], 1, DoubleZero)
       = <<0, 0, 2 ^ 12>>
  /\ {METHODOLOGY.dimensions[i].id : i \in 1..Len(METHODOLOGY.dimensions)} = DimensionKeys
  /\ \A i \in 1..Len(METHODOLOGY.dimensions) :
       /\ METHODOLOGY.dimensions[i].weightPercent = METHODOLOGY.dimensions[i].weight
       /\ METHODOLOGY.dimensions[i].weight = WEIGHTS[METHODOLOGY.dimensions[i].id]
  /\ (outcome = "returned" /\ "createErrorScore" \notin called) =>
       result.overallScore =
         RoundWeightedSum([i \in 1..Len(METHODOLOGY.dimensions) |->
                             <<result.dimensions[METHODOLOGY.dimensions[i].id].score,
                               METHODOLOGY.dimensions[i].weightPercent>>])

\* A document has been scored whose six dimension scores are all different.
C15_ScoredWithSixDifferentScores ==
  /\ outcome = "returned"
  /\ "createErrorScore" \notin called
  /\ Cardinality({result.dimensions[k].score : k \in DimensionKeys}) = 6

\* C16: the document with no paths, no schemas, no security schemes and no
\* info fields, scored with an empty issue list, scores 0 on Semantic
\* Richness, AI Discoverability, Security and Error Recoverability; its other
\* scores come from sub-factors at their neutral value alone (Agent Usability
\* 10, from paginationCoverage 100 with no list operation; Foundational
\* Compliance 100, from the empty issue list); and its overall score is 27.
C16_EmptyDocumentFloor ==
  (specContent = EmptyDocument /\ validationResults = <<>> /\ outcome # "none") =>
    /\ outcome = "returned"
    /\ result.dimensions.semanticRichness.score = 0
    /\ result.dimensions.aiDiscoverability.score = 0
    /\ result.dimensions.security.score = 0
    /\ result.dimensions.errorRecoverability.score = 0
    /\ result.dimensions.agentUsability.score = 10
    /\ result.dimensions.agentUsability.details =
         [operationIdCoverage |-> 0, operationIdQuality |-> 0, idempotencyScore |-> 0,
          errorResponseCoverage |-> 0, paginationCoverage |-> 100]
    /\ result.dimensions.foundationalCompliance.score = 100
    /\ result.overallScore = 27

\* The empty document has been scored with an empty issue list.
C16_EmptyDocumentScored ==
  /\ specContent = EmptyDocument
  /\ validationResults = <<>>
  /\ outcome = "returned"
  /\ result.stats.operations = 0

\* C17: the one-operation document (GET /users, operationId 'listUsers', a
\* 30-character description with 'Retrieves' and 'user', a 200 response with
\* a JSON example, a described query parameter 'limit', openapi 3.0.3, no
\* issues) scores Foundational Compliance 100, Error Recoverability 0,
\* Security 0, Agent Usability below 100 with errorResponseCoverage 0 and its
\* other sub-factors 100, Semantic Richness below 100 with summaryCoverage 0
\* and schemaDescriptions 0, and AI Discoverability below both of these and
\* above Security.
C17_ListUsersScenario ==
  (specContent = ListUsersDocument /\ validationResults = <<>> /\ outcome # "none") =>
    /\ outcome = "returned"
    /\ result.dimensions.foundationalCompliance.score = 100
    /\ result.dimensions.errorRecoverability.score = 0
    /\ result.dimensions.security.score = 0
    /\ result.dimensions.agentUsability.score < 100
    /\ result.dimensions.agentUsability.details =
         [operationIdCoverage |-> 100, operationIdQuality |-> 100,
          idempotencyScore |-> 100, errorResponseCoverage |-> 0,
          paginationCoverage |-> 100]
    /\ result.dimensions.semanticRichness.score < 100
    /\ result.dimensions.semanticRichness.details.summaryCoverage = 0
    /\ result.dimensions.semanticRichness.details.schemaDescriptions = 0
    /\ result.dimensions.aiDiscoverability.score < result.dimensions.agentUsability.score
    /\ result.dimensions.aiDiscoverability.score < result.dimensions.semanticRichness.score
    /\ result.dimensions.aiDiscoverability.score > result.dimensions.security.score

\* The one-operation document has been scored with no issues.
C17_ListUsersScored ==
  /\ specContent = ListUsersDocument
  /\ validationResults = <<>>
  /\ outcome = "returned"
  /\ result.stats.operations = 1
  /\ result.stats.parameters = 1

\* C18: gatherStats returns for every object document, however sparse (no
\* paths, no components, path items with nothing in them); with no paths and
\* no components the counts are all zero, and otherwise operations is the
\* number of present method slots.
C18_GatherStatsIsTotal ==
  (specContent.kind = "object" /\ "gatherStats" \in called) =>
    /\ ~(outcome = "threw" /\ called = {"gatherStats"})
    /\ outcome = "returned" =>
         /\ result.stats.operations = Len(AllOperations(specContent))
         /\ (~specContent.hasPaths /\ specContent.schemas = <<>>
               /\ specContent.securitySchemes = <<>>)
              => /\ result.stats.operations = 0
                 /\ result.stats.parameters = 0
                 /\ result.stats.schemas = 0
                 /\ result.stats.securitySchemes = 0

\* The call has thrown inside gatherStats, on a document whose paths holds a
\* key with nothing under it.
C18_ThrowsOnNullPathItem ==
  /\ specContent.kind = "object"
  /\ \E i \in 1..Len(specContent.paths) : specContent.paths[i].isNull
  /\ outcome = "threw"
  /\ called = {"gatherStats"}

\* C19: analyzing the six dimensions in any order ends as the sequential
\* order of calculateAgentReadinessScore does (returns or throws), every
\* DimensionScore computed on the way is the one the sequential order computes,
\* and so is the result.
C19_AnyOrderSameResult ==
  LET sequential == calculateAgentReadinessScore(validationResults, specContent,
                                                 [p \in PATTERNS |-> 0])
  IN /\ sequential.outcome = "returned" =>
          \A i \in 1..Len(evaluated) :
            evaluated[i].dimension = sequential.result.dimensions[evaluated[i].key]
     /\ outcome # "none" =>
          /\ outcome = sequential.outcome
          /\ result = sequential.result

\* A result has been returned with Error Recoverability analyzed first and
\* Foundational Compliance last, for a document with an operation.
C19_ReturnedInReverseOrder ==
  /\ outcome = "returned"
  /\ Len(evaluated) = 6
  /\ evaluated[1].key = "errorRecoverability"
  /\ evaluated[2].key = "security"
  /\ evaluated[6].key = "foundationalCompliance"
  /\ result.stats.operations > 0
  /\ result.overallScore > 0

\* C20: for every message of type 'score-request' the worker posts exactly one
\* reply, a 'score-response' with the score when scoring returns and a
\* 'score-error' when it throws; a message of any other type, or without data,
\* gets no reply.
C20_OneReplyPerRequest ==
  IF received.present /\ received.type = "score-request"
    THEN /\ Len(posted) = 1
         /\ calculateApiScore(received.results, received.specContent).outcome = "returned"
              => /\ posted[1].type = "score-response"
                 /\ posted[1].overallScore
                      = calculateApiScore(received.results, received.specContent).overallScore
         /\ calculateApiScore(received.results, received.specContent).outcome = "threw"
              => posted[1].type = "score-error"
    ELSE posted = <<>>

\* A score-request whose results array holds a null element has been answered
\* with a score-error.
C20_RequestAnsweredWithError ==
  /\ received.present
  /\ received.type = "score-request"
  /\ received.results.defined
  /\ \E i \in 1..Len(received.results.entries) : received.results.entries[i] = NullEntry
  /\ Len(posted) = 1
  /\ posted[1].type = "score-error"

\* C21: a call of calculateAgentReadinessScore leaves the caller's
\* validationResults list as it was handed in, on the scored path and on the
\* parse-failure path: the list after the call is the list before it, or that
\* list with the one entry the validators reported since.
C21_InputsNotMutated ==
  [][\/ validationResults' = validationResults
     \/ \E r \in ValidationResultInputs :
          validationResults' = Append(validationResults, r)]_vars

\* A document that fails to parse has been scored twice in a row with a list
\* of two entries.
C21_ParseFailureScoredWithResults ==
  /\ rerun
  /\ outcome = "returned"
  /\ ParseFails(specContent)
  /\ Len(validationResults) = 2
  /\ result.summary.level = ""

\* C22: for every parseable document, in every band of the overall score,
\* the summary is non-empty and contains the operation count of stats.
C22_SummaryHasOperationCount ==
  (outcome = "returned" /\ ~ParseFails(specContent)) =>
    /\ result.summary.template # ""
    /\ result.summary.operations = result.stats.operations

\* A document with operations has scored between 40 and 59 and its summary
\* is the template that names no operation count.
C22_SummaryWithoutCount ==
  /\ outcome = "returned"
  /\ ~ParseFails(specContent)
  /\ result.overallScore >= 40
  /\ result.overallScore < 60
  /\ result.stats.operations > 0
  /\ result.summary.template = "focus on the critical improvements"
  /\ result.summary.operations = -1

\* C23: however the calls of loadUnicornStudio and the script events fall,
\* at most one script element is loading or has loaded (a second one is appended
\* only after the one before it failed), none is appended when the SDK was
\* already on the window, at most one promise is pending or resolved, and
\* every caller whose promise is pending or resolved holds that one promise,
\* the cached one.
C23_SingletonLoader ==
  /\ Cardinality({i \in 1..Len(loader.scripts) : loader.scripts[i].state # "failed"}) <= 1
  /\ \A i \in 1..Len(loader.scripts) :
       loader.scripts[i].state # "failed" => i = Len(loader.scripts)
  /\ Cardinality({p \in 1..Len(loader.promises) : loader.promises[p] # "rejected"}) <= 1
  /\ \A c \in 1..Len(loader.returned) :
       (loader.returned[c].promise # 0
          /\ loader.promises[loader.returned[c].promise] # "rejected")
         => loader.returned[c].promise = loader.loadPromise

\* Two components called while the first script was loading, the script
\* failed, a later call appended a second script, it loaded, and a call after
\* that was handed the resolved promise.
C23_LoadedAfterRetry ==
  /\ Len(loader.scripts) = 2
  /\ loader.scripts[1].state = "failed"
  /\ loader.scripts[2].state = "loaded"
  /\ loader.promises = <<"rejected", "resolved">>
  /\ Len(loader.returned) = 5
  /\ loader.returned[1].promise = 1
  /\ loader.returned[2].promise = 1
  /\ loader.returned[1].component # loader.returned[2].component
  /\ loader.returned[5].promise = 2

\* A GET on a path ending in 's' or containing 'list' or 'search'.
IsListOperation(entry) ==
  /\ entry.method = "get"
  /\ \/ EndsWith_s(entry.pathKey)
     \/ Includes(entry.pathKey, "list")
     \/ Includes(entry.pathKey, "search")

\* The operation declares a recognized pagination parameter.
DeclaresPagination(entry) ==
  /\ entry.operation.hasParameters
  /\ SomePagination(entry.operation.parameters, 1) = "true"

ListOperationsOf(spec) == SelectSeq(AllOperations(spec), IsListOperation)

\* C24: paginationCoverage is the rounded percentage of the list operations
\* that declare a recognized pagination parameter, 100 when there is no list
\* operation; a list operation without one, declaring parameters or not, makes
\* it less than 100.
C24_PaginationCoverage ==
  (outcome = "returned" /\ ~ParseFails(specContent)) =>
    /\ result.dimensions.agentUsability.details.paginationCoverage =
         IF Len(ListOperationsOf(specContent)) = 0 THEN 100
         ELSE Percent(Count(ListOperationsOf(specContent), DeclaresPagination),
                      Len(ListOperationsOf(specContent)))
    /\ result.dimensions.agentUsability.details.paginationCoverage = 100 =>
         \A i \in 1..Len(ListOperationsOf(specContent)) :
           DeclaresPagination(ListOperationsOf(specContent)[i])

\* A document whose only operation is GET /users without a parameters key has
\* been scored with paginationCoverage 100.
C24_UnpagedListCounts100 ==
  /\ outcome = "returned"
  /\ Len(AllOperations(specContent)) = 1
  /\ IsListOperation(AllOperations(specContent)[1])
  /\ AllOperations(specContent)[1].pathKey = "/users"
  /\ ~AllOperations(specContent)[1].operation.hasParameters
  /\ result.dimensions.agentUsability.details.paginationCoverage = 100

\* The server URLs a document declares: none when the servers key is absent.
DeclaredServers(spec) == IF spec.hasServers THEN spec.servers ELSE <<>>

\* C25: httpsSupport is 100 exactly when every declared server URL starts
\* with 'https://', '{' or '/', and 0 otherwise; a document without a servers
\* key and one with an empty servers list declare the same URLs and get the
\* same value.
C25_HttpsSupport ==
  (outcome = "returned" /\ ~ParseFails(specContent)) =>
    result.dimensions.security.details.httpsSupport =
      IF \A i \in 1..Len(DeclaredServers(specContent)) :
           \/ StartsWith(DeclaredServers(specContent)[i].url, "https://")
           \/ StartsWith(DeclaredServers(specContent)[i].url, "{")
           \/ StartsWith(DeclaredServers(specContent)[i].url, "/")
        THEN 100 ELSE 0

\* A document without a servers key has been scored with httpsSupport 0,
\* where the document with servers: [] and the same content scores 100.
C25_AbsentServersScoreZero ==
  /\ outcome = "returned"
  /\ specContent.kind = "object"
  /\ ~specContent.hasServers
  /\ result.dimensions.security.details.httpsSupport = 0
  /\ analyzeSecurity([specContent EXCEPT !.hasServers = TRUE],
                     gatherStats(specContent)).details.httpsSupport = 100

\* The entries of validationResults that satisfy Test.
IssueCount(Test(_)) == Cardinality({i \in 1..Len(validationResults) : Test(validationResults[i])})

HasSeverityError(r) == r.severity = "error"
HasSeverityWarning(r) == r.severity = "warning"
MentionsRef(r) == Includes(ToLowerCase(r.message), "ref") \/ Includes(ToLowerCase(r.code), "ref")

C28_SuccessEntriesAreFree ==
  [][/\ (/\ outcome = "returned"
         /\ outcome' = "returned"
         /\ specContent' = specContent
         /\ validationResults' = Append(validationResults, ZodSuccess))
        => /\ result'.dimensions.foundationalCompliance.details
                = result.dimensions.foundationalCompliance.details
           /\ result'.dimensions.foundationalCompliance.score
                = result.dimensions.foundationalCompliance.score
     /\ (/\ outcome' = "returned"
         /\ ~ParseFails(specContent')
         /\ specContent'.openapi.present
         /\ \A i \in 1..Len(validationResults') : validationResults'[i] = ZodSuccess)
        => result'.dimensions.foundationalCompliance.score = 100]_vars

\* A document with a valid version has been scored with the OAS Zod
\* validator's success entry as its only issue: the entry is counted as a
\* schema issue and Foundational Compliance is 99.
C28_SuccessEntryCostsAPoint ==
  /\ outcome = "returned"
  /\ specContent.openapi.present
  /\ validationResults = <<ZodSuccess>>
  /\ result.dimensions.foundationalCompliance.details.structuralIntegrity < 1000000
  /\ \E i \in 1..Len(result.dimensions.foundationalCompliance.signals) :
       result.dimensions.foundationalCompliance.signals[i].message = "schema issue"
  /\ result.dimensions.foundationalCompliance.score = 99

\* C29: for every parseable document Agent Usability's errorResponseCoverage
\* equals Error Recoverability's errorCoverage.
C29_ErrorCoverageAgrees ==
  (outcome = "returned" /\ ~ParseFails(specContent)) =>
    result.dimensions.agentUsability.details.errorResponseCoverage
      = result.dimensions.errorRecoverability.details.errorCoverage

\* A document with two operations, one of them with only a 500 response and
\* one without error responses, has been scored: both sub-factors are 50.
C29_HalfTheOperationsDeclareErrors ==
  /\ outcome = "returned"
  /\ Len(AllOperations(specContent)) = 2
  /\ \E i \in 1..2 : AllOperations(specContent)[i].operation = AnonymousOperation
  /\ \E i \in 1..2 : AllOperations(specContent)[i].operation = ListUsersOperation
  /\ result.dimensions.agentUsability.details.errorResponseCoverage = 50
  /\ result.dimensions.errorRecoverability.details.errorCoverage = 50

\* C27: calling calculateApiScore again with the same results array and the
\* same specContent, parseable or not, returns the same overallScore every
\* time and leaves the array with its original length.
C27_SameScoreAndSameArray ==
  /\ \A i \in 1..Len(scored.scores) : scored.scores[i] = scored.scores[1]
  /\ Len(scored.scores) > 0 => Len(scored.results) = Len(scored.original)

\* A caller has scored content that does not parse three times with an array
\* that was empty: the array holds three 'parsing-error' entries and each
\* score is lower than the one before.
C27_ArrayGrowsAndScoreDrops ==
  /\ scored.specContent.kind = "unparseable"
  /\ scored.original = <<>>
  /\ Len(scored.scores) = 3
  /\ scored.results = <<ParsingError, ParsingError, ParsingError>>
  /\ scored.scores[1] > scored.scores[2]
  /\ scored.scores[2] > scored.scores[3]

\* C30: every reply is applied by the listener of the request it answers,
\* and once no request and no reply is in flight and no validation is
\* running, the page holds the score computed for the last completed
\* validation, if that one posted a request.
C30_RepliesMatchRequests ==
  /\ \A i \in 1..Len(page.applied) : page.applied[i].listener = page.applied[i].reply
  /\ (/\ page.completed > 0
      /\ page.started = page.completed
      /\ page.inbox = <<>>
      /\ page.outbox = <<>>
      /\ ~page.specContent.empty
      /\ ~page.validationError)
     => /\ page.agentReadinessScore.present
        /\ page.agentReadinessScore.value =
             calculateApiScore([defined |-> TRUE, entries |-> page.validationResults],
                               page.specContent.document).overallScore

\* Two validations posted their requests before the first reply arrived; the
\* first reply was handled by both listeners, the second by none, and with
\* nothing left in flight the page holds no score.
C30_SecondListenerTookFirstReply ==
  /\ page.completed = 2
  /\ page.started = 2
  /\ page.inbox = <<>>
  /\ page.outbox = <<>>
  /\ page.listeners = <<>>
  /\ page.applied = <<[listener |-> 1, reply |-> 1], [listener |-> 2, reply |-> 1]>>
  /\ ~page.specContent.empty
  /\ ~page.validationError
  /\ ~page.agentReadinessScore.present

====
